---- MODULE Spec2Model ----
(***************************************************************************)
(* Model of the routing engine of mjx-assistant: the quota ledger          *)
(* (SQLiteStorage / MySQLStorage), the candidate selector (MainAgent) and  *)
(* the task router (TaskExecutor).                                         *)
(*                                                                         *)
(* Time is the integer number of seconds Math.floor(Date.now() / 1000)     *)
(* yields.  The tables usage_logs and task_logs are sequences of rows in   *)
(* insertion (rowid) order; the table models is a function from the model  *)
(* name (its UNIQUE key) to the row.                                       *)
(***************************************************************************)
EXTENDS Integers, Sequences, FiniteSets, TLC

VARIABLES
  now,          \* Math.floor(Date.now() / 1000)
  ticks,        \* number of clock advances so far (bounds the run)
  changes,      \* number of enableModel / disableModel calls so far (bounds the run)
  faults,       \* number of ledger writes of executeTask calls that threw (bounds the run)
  keys,         \* origins whose API key is set in the environment
  models,       \* table models: name -> row
  usage_logs,   \* table usage_logs
  task_logs,    \* table task_logs
  pc,           \* per executeTask call: the await it is suspended at
  stats,        \* getAvailableModelsWithStats: the rows getModelStats returned
  availableModels, \* selectModelForTask: the candidate rows it fetched
  analysis,     \* the TaskAnalysis in force
  cur,          \* executeWithModel: modelName
  promptLen,    \* executeWithModel: userTask.length
  triedModels,  \* retryWithFallback: the Set triedModels of the current frame
  failedModel,  \* retryWithFallback: failedModel of the current frame
  available,    \* retryWithFallback: the list the loop iterates
  idx,          \* retryWithFallback: position of the loop in available
  result,       \* what executeTask returned
  hist,         \* per call: what the call has done so far (for the properties)
  oracle,       \* per call: what consultMainAgent last did (for the properties)
  driver,       \* StorageFactory: the storage driver in use
  autoIncrement, \* table models: the last id AUTOINCREMENT handed out
  op,           \* per caller: the storage call it is suspended in (mysql)
  seeded,       \* the seedModels calls that have ended, in order
  usageCalls,   \* the logModelUsage calls of the storage run that have ended, in order
  sessions,     \* SessionMemory.sessions: channelId -> Session
  added,        \* per channel: the add calls since its session was made (for the properties)
  formatted,    \* per channel: what format last returned
  chain,        \* buildContext: chain
  currentRef,   \* buildContext: currentRef
  depth,        \* buildContext: depth
  firstHop,     \* buildContext: firstHop
  refMsg,       \* buildContext: the message last fetched
  walk,         \* buildContext: the await it is suspended at
  context,      \* what buildContext returned
  visited,      \* buildContext: the entries it took, in the order it met them (for the properties)
  reminders,    \* table reminders: id -> row
  lastReminderId, \* table reminders: the last id AUTOINCREMENT handed out
  tool,         \* ReminderTool.execute: the statement it awaits (mysql)
  toolCalls,    \* ReminderTool.execute: the calls made so far
  poll,         \* per call of deliverDueReminders: the await it is suspended at
  sent          \* per reminder: the sends that succeeded (for the properties)

ledgerVars == <<now, ticks, changes, faults, keys, models, usage_logs, task_logs>>
taskVars == <<pc, stats, availableModels, analysis, cur, promptLen,
              triedModels, failedModel, available, idx, result, hist, oracle>>
storeVars == <<driver, autoIncrement, op, seeded, usageCalls>>
sessionVars == <<sessions, added, formatted>>
contextVars == <<chain, currentRef, depth, firstHop, refMsg, walk, context, visited>>
reminderVars == <<reminders, lastReminderId, tool, toolCalls, poll, sent>>
chatVars == <<sessionVars, contextVars, reminderVars>>
vars == <<now, ticks, changes, faults, keys, models, usage_logs, task_logs, pc,
          stats, availableModels, analysis, cur, promptLen, triedModels, failedModel,
          available, idx, result, hist, oracle, driver, autoIncrement, op, seeded, usageCalls,
          sessions, added,
          formatted, chain, currentRef, depth, firstHop, refMsg, walk, context,
          visited, reminders, lastReminderId, tool, toolCalls, poll, sent>>

(***************************************************************************)
(* Bounds of the model.                                                    *)
(***************************************************************************)
MaxTicks == 3
MaxUsageLog == 2
MaxTaskLog == 5
MaxChanges == 2

(***************************************************************************)
(* Program constants.                                                      *)
(***************************************************************************)
MinuteWindow == 60
DayWindow == 86400
DefaultMinTokens == 400
FailureRateThreshold == 20
MinTokenBuffer == 100
MaxRetryModels == 3
FailureRateWindow == 86400

Names == {"A", "B", "C", "D"}
Origins == {"google", "groq"}
Procs == {1, 2}

\* The clock advances the model takes: one second, up to the edge of the
\* minute window, and up to the edge of the day window.
TickSteps == {1, MinuteWindow, DayWindow - MinuteWindow}

(***************************************************************************)
(* Generic helpers on sequences of rows.                                   *)
(***************************************************************************)
Range(seq) == {seq[i] : i \in 1..Len(seq)}

RECURSIVE SumRequests(_)
SumRequests(rows) ==
  IF rows = <<>> THEN 0 ELSE Head(rows).requests + SumRequests(Tail(rows))

RECURSIVE SumTokens(_)
SumTokens(rows) ==
  IF rows = <<>> THEN 0 ELSE Head(rows).tokens + SumTokens(Tail(rows))

\* SQL: ... FROM usage_logs WHERE model = ? AND timestamp >= ?
UsageSinceStrict(model, since) ==
  SelectSeq(usage_logs, LAMBDA r : r.model = model /\ r.timestamp > since)

UsageSince(model, since) ==
  SelectSeq(usage_logs, LAMBDA r : r.model = model /\ r.timestamp >= since)

\* getModelUsage with the minute sums read from the day window.
getModelUsageDayOnly(model) ==
  [rpmUsed |-> SumRequests(UsageSince(model, now - DayWindow)),
   tpmUsed |-> SumTokens(UsageSince(model, now - DayWindow)),
   rpdUsed |-> SumRequests(UsageSince(model, now - DayWindow)),
   tpdUsed |-> SumTokens(UsageSince(model, now - DayWindow))]

getModelUsage(model) ==
  [rpmUsed |-> SumRequests(UsageSince(model, now - MinuteWindow)),
   tpmUsed |-> SumTokens(UsageSince(model, now - MinuteWindow)),
   rpdUsed |-> SumRequests(UsageSince(model, now - DayWindow)),
   tpdUsed |-> SumTokens(UsageSince(model, now - DayWindow))]

\* ORDER BY rank ASC: the names of S by ascending rank, rows of equal rank
\* in rowid order.
RECURSIVE OrderByRank(_)
OrderByRank(S) ==
  IF S = {} THEN <<>>
  ELSE LET first == CHOOSE m \in S : \A o \in S :
                      \/ models[m].rank < models[o].rank
                      \/ /\ models[m].rank = models[o].rank
                         /\ models[m].id <= models[o].id
       IN <<first>> \o OrderByRank(S \ {first})

\* The JavaScript filter of getAllAvailableModels on one row.
HasCapacityNoDay(m, minTokens) ==
  LET u == getModelUsage(m) IN
  /\ models[m].rpm_allowed - u.rpmUsed >= 1
  /\ models[m].tpm_total - u.tpmUsed >= minTokens

HasCapacity(m, minTokens) ==
  LET u == getModelUsage(m) IN
  /\ models[m].rpm_allowed - u.rpmUsed >= 1
  /\ models[m].tpm_total - u.tpmUsed >= minTokens
  /\ models[m].rpd_total - u.rpdUsed >= 1
  /\ models[m].tpd_total - u.tpdUsed >= minTokens

\* getAllAvailableModels(minTokens): the names of the rows returned, in order.
getAllAvailableModels(minTokens) ==
  SelectSeq(OrderByRank({m \in DOMAIN models : models[m].enabled}),
            LAMBDA m : HasCapacity(m, minTokens))

(***************************************************************************)
(* Ledger operations.                                                      *)
(***************************************************************************)
UsageRow(model, requests, tokens) ==
  [model |-> model, requests |-> requests, tokens |-> tokens, timestamp |-> now]

\* logModelUsage that turns down an event the requests-per-minute quota has
\* no room for.
logModelUsageWithinQuota(model, requests, tokens) ==
  IF models[model].rpm_allowed - getModelUsage(model).rpmUsed >= requests
  THEN usage_logs' = Append(usage_logs, UsageRow(model, requests, tokens))
  ELSE UNCHANGED usage_logs

\* logModelUsage: one INSERT, nothing read.
logModelUsage(model, requests, tokens) ==
  usage_logs' = Append(usage_logs, UsageRow(model, requests, tokens))

ModelRow(id, origin, rank, rpm, tpm, rpd, tpd) ==
  [id |-> id, origin |-> origin, rank |-> rank, description |-> "", enabled |-> TRUE,
   rpm_allowed |-> rpm, tpm_total |-> tpm, rpd_total |-> rpd, tpd_total |-> tpd,
   successful_tasks |-> 0, failed_tasks |-> 0]

\* The catalog seeded for the ledger runs: B is preferred to A.
LedgerCatalog ==
  [m \in {"A", "B"} |->
     IF m = "A" THEN ModelRow(1, "google", 2, 2, 600, 3, 900)
                ELSE ModelRow(2, "groq", 1, 1, 1000, 5, 1000)]

\* The (requests, tokens) pairs recordUsage is called with.
UsageInputs == {<<1, 300>>, <<2, 500>>}

\* Per call, for the properties: how often each model was attempted, had
\* its provider call fail (missing adapter included), had a failure
\* recorded, succeeded and had usage logged by the call (0, 1, or 2 for
\* more), the
\* model chosen by selection, the last model attempted, whether the current
\* attempt is a fallback, the fallback candidates over the failure-rate
\* threshold when the list was read, whether triedModels only grew, and the
\* last response a provider returned.
Bump(n) == IF n < 2 THEN n + 1 ELSE n

ZeroCount == [m \in Names |-> 0]
NoHist ==
  [chosen |-> "none", eligible |-> 0, attempts |-> ZeroCount, threw |-> ZeroCount,
   failed |-> ZeroCount,
   succeeded |-> ZeroCount, usage |-> ZeroCount, last |-> "none",
   fallback |-> FALSE, overThreshold |-> {}, grown |-> TRUE,
   response |-> [tokensUsed |-> 0, textLen |-> 0],
   consulted |-> 0, reads |-> 0]

Pending == [kind |-> "pending", success |-> FALSE, modelUsed |-> "none",
            tokensUsed |-> 0, error |-> FALSE]

NoTask == [p \in Procs |-> "idle"]

\* consultMainAgent has not been called.
NoAnswer == [kind |-> "none", selectedModel |-> "none", estimatedTokens |-> 0]

\* No storage call is in progress.
NoOp == [kind |-> "none"]

\* A string is the sequence of its runs of equal characters:
\* "a".repeat(1000) is <<[ch |-> "a", n |-> 1000]>>, "" is <<>>.
CharRun(ch, n) == [ch |-> ch, n |-> n]

Channels == {"general"}

\* The channel has no entry in SessionMemory.sessions.
NoSession == [exists |-> FALSE, entries |-> <<>>, lastActive |-> 0]

\* format was not called in the last step (no string: a run is never empty).
NotCalled == <<CharRun("", 0)>>

\* Per channel, for the properties: the add calls since the channel's
\* session was made, and the Date.now() of the last add since the last clear
\* (-1: none).
NoAdds == [log |-> <<>>, last |-> -1]

\* null as a message reference, and no message fetched.
NoRef == [messageId |-> 0]
NoMessage ==
  [id |-> 0, fromBot |-> FALSE, taggedBot |-> FALSE, createdTimestamp |-> 0,
   content |-> <<>>, description |-> <<>>, reference |-> NoRef]
NoContext == [returned |-> FALSE, chain |-> <<>>, hasContext |-> FALSE]

\* No session exists and buildContext is not running.
\* The calls of ReminderTool.execute, the ids the table reminders hands
\* out (two rows are stored at the start), and the calls of
\* deliverDueReminders.
MaxToolCalls == 1
Reminders == 1..(2 + MaxToolCalls)
MaxPolls == 2
Polls == 1..MaxPolls

\* No reminder is stored, ReminderTool.execute awaits nothing, no call of
\* deliverDueReminders has been made.
NoReminders == [r \in {} |-> [user_id |-> "", remind_at |-> 0, delivered |-> 0]]
NoTool == [pc |-> "none"]
NoPoll == [pc |-> "idle", due |-> <<>>, i |-> 0, startedAt |-> 0]

RemindersIdle ==
  /\ reminders = NoReminders
  /\ lastReminderId = 0
  /\ tool = NoTool
  /\ toolCalls = 0
  /\ poll = [t \in Polls |-> NoPoll]
  /\ sent = [r \in Reminders |-> 0]

ChatIdle ==
  /\ RemindersIdle
  /\ sessions = [c \in Channels |-> NoSession]
  /\ added = [c \in Channels |-> NoAdds]
  /\ formatted = [c \in Channels |-> NotCalled]
  /\ chain = <<>>
  /\ currentRef = NoRef
  /\ depth = 0
  /\ firstHop = TRUE
  /\ refMsg = NoMessage
  /\ walk = "idle"
  /\ context = NoContext
  /\ visited = <<>>

\* The largest id of a table whose rows were inserted one after the other.
LastId(tbl) ==
  IF DOMAIN tbl = {} THEN 0
  ELSE CHOOSE i \in {tbl[m].id : m \in DOMAIN tbl} :
         \A m \in DOMAIN tbl : tbl[m].id <= i

\* The storage as StorageFactory.create() makes it by default: sqlite, no
\* call in progress.
StoreIdle ==
  /\ driver = "sqlite"
  /\ autoIncrement = LastId(models)
  /\ op = [p \in Procs |-> NoOp]
  /\ seeded = <<>>
  /\ usageCalls = <<>>

TaskInit ==
  /\ pc = NoTask
  /\ stats = [p \in Procs |-> <<>>]
  /\ availableModels = [p \in Procs |-> <<>>]
  /\ analysis = [p \in Procs |-> [selectedModel |-> "none", reasoning |-> "Failed to select model",
                      estimatedTokens |-> 0]]
  /\ cur = [p \in Procs |-> "none"]
  /\ promptLen = [p \in Procs |-> 0]
  /\ triedModels = [p \in Procs |-> {}]
  /\ failedModel = [p \in Procs |-> "none"]
  /\ available = [p \in Procs |-> <<>>]
  /\ idx = [p \in Procs |-> 0]
  /\ result = [p \in Procs |-> Pending]
  /\ hist = [p \in Procs |-> NoHist]
  /\ oracle = [p \in Procs |-> NoAnswer]

LedgerInit ==
  /\ now = 0
  /\ ticks = 0
  /\ changes = 0
  /\ faults = 0
  /\ keys = Origins
  /\ models = LedgerCatalog
  /\ usage_logs = <<>>
  /\ task_logs = <<>>
  /\ TaskInit
  /\ StoreIdle
  /\ ChatIdle

\* Date.now() moves on.
Tick ==
  /\ ticks < MaxTicks
  /\ \E d \in TickSteps : now' = now + d
  /\ ticks' = ticks + 1
  /\ UNCHANGED <<changes, faults, keys, models, usage_logs, task_logs>>
  /\ UNCHANGED taskVars
  /\ UNCHANGED chatVars
  /\ UNCHANGED storeVars

\* A caller records usage.
RecordUsage ==
  /\ Len(usage_logs) < MaxUsageLog
  /\ \E m \in DOMAIN models, in \in UsageInputs : logModelUsage(m, in[1], in[2])
  /\ UNCHANGED <<now, ticks, changes, faults, keys, models, task_logs>>
  /\ UNCHANGED taskVars
  /\ UNCHANGED chatVars
  /\ UNCHANGED storeVars

\* enableModel / disableModel: UPDATE models SET enabled = ? WHERE model = ?
SetEnabled(name, flag) ==
  models' = [models EXCEPT ![name].enabled = flag]

DisableModel ==
  /\ changes < MaxChanges
  /\ \E m \in DOMAIN models : models[m].enabled /\ SetEnabled(m, FALSE)
  /\ changes' = changes + 1
  /\ UNCHANGED faults
  /\ UNCHANGED <<now, ticks, keys, usage_logs, task_logs>>
  /\ UNCHANGED taskVars
  /\ UNCHANGED chatVars
  /\ UNCHANGED storeVars

EnableModel ==
  /\ changes < MaxChanges
  /\ \E m \in DOMAIN models : ~models[m].enabled /\ SetEnabled(m, TRUE)
  /\ changes' = changes + 1
  /\ UNCHANGED faults
  /\ UNCHANGED <<now, ticks, keys, usage_logs, task_logs>>
  /\ UNCHANGED taskVars
  /\ UNCHANGED chatVars
  /\ UNCHANGED storeVars

LedgerNext == Tick \/ RecordUsage \/ DisableModel \/ EnableModel

LedgerSpec == LedgerInit /\ [][LedgerNext]_vars

(***************************************************************************)
(* Outcome log and failure rate.                                           *)
(***************************************************************************)
\* The messages of the errors a call meets, and the error_message of a row
\* stored without one (errorMessage || null).
NoAdapterError == "no adapter"
ProviderError == "provider error"
LedgerError == "database is locked"
NoErrorMessage == "null"

TaskRow(model, taskType, success, errorMessage, tokensUsed) ==
  [model |-> model, task_type |-> taskType, success |-> success,
   error_message |-> errorMessage, tokens_used |-> tokensUsed, timestamp |-> now]

\* The statement of a ledger write that throws: none, the INSERT, or the
\* UPDATE that follows it.
WriteFaults == {"none", "insert", "update"}

\* logTaskOutcome: INSERT INTO task_logs, then UPDATE models SET
\* successful_tasks / failed_tasks = ... + 1, two statements outside any
\* transaction. When a statement throws, those before it stay applied and
\* the call throws.
logTaskOutcome(model, taskType, success, tokensUsed, errorMessage, thrown) ==
  /\ task_logs' = IF thrown = "insert" THEN task_logs
                  ELSE Append(task_logs,
                         TaskRow(model, taskType, success, errorMessage, tokensUsed))
  /\ models' = IF thrown # "none" THEN models
               ELSE IF success
               THEN [models EXCEPT ![model].successful_tasks = @ + 1]
               ELSE [models EXCEPT ![model].failed_tasks = @ + 1]

\* The counts of getModelFailureRate over all rows of the model.
FailureCountsAllTime(model, timeWindowSeconds) ==
  LET rows == SelectSeq(task_logs, LAMBDA r : r.model = model)
  IN [total_tasks |-> Len(rows),
      failed_tasks |-> Len(SelectSeq(rows, LAMBDA r : ~r.success))]

\* SELECT COUNT(*), SUM(CASE WHEN success = 0 ...) FROM task_logs
\* WHERE model = ? AND timestamp >= ?
FailureCounts(model, timeWindowSeconds) ==
  LET rows == SelectSeq(task_logs, LAMBDA r :
                 r.model = model /\ r.timestamp >= now - timeWindowSeconds)
  IN [total_tasks |-> Len(rows),
      failed_tasks |-> Len(SelectSeq(rows, LAMBDA r : ~r.success))]

\* The test on the failure rate over all rows of the model, old ones too.
FailureRateExceedsEver(model, threshold) ==
  LET c == FailureCountsAllTime(model, FailureRateWindow) IN
  /\ c.total_tasks # 0
  /\ c.failed_tasks * 100 > threshold * c.total_tasks

\* failureRates[i] > failureRateThreshold, with
\* getModelFailureRate = 0 when total_tasks = 0 and
\* (failed_tasks / total_tasks) * 100 otherwise.
FailureRateExceeds(model, threshold) ==
  LET c == FailureCounts(model, FailureRateWindow) IN
  /\ c.total_tasks # 0
  /\ c.failed_tasks * 100 > threshold * c.total_tasks

(***************************************************************************)
(* The storage drivers.  SQLiteStorage runs every method to its end within *)
(* the call (better-sqlite3 is synchronous); MySQLStorage awaits each      *)
(* statement, so a method of several statements is several steps, other    *)
(* callers run in between, and a statement may be rejected (connection     *)
(* lost, server error), which ends the method there.                       *)
(***************************************************************************)
Drivers == {"sqlite", "mysql"}

\* tpdTotal ?? tpmTotal * 1440
MinutesPerDay == 1440

\* The bound of a storage run: the calls begun.
MaxStoreCalls == 3
MaxSeeds == 2

\* A row of a catalog has name, origin, rank, description, enabled and,
\* where defined, rpmAllowed, tpmTotal, rpdTotal, tpdTotal.
HasLimits(row) == {"rpmAllowed", "tpmTotal", "rpdTotal"} \subseteq DOMAIN row

TpdTotalOf(row) ==
  IF "tpdTotal" \in DOMAIN row THEN row.tpdTotal ELSE row.tpmTotal * MinutesPerDay

\* INTEGER PRIMARY KEY AUTOINCREMENT (sqlite), INT AUTO_INCREMENT (mysql):
\* the id an INSERT is given, from the last id handed out.  An INSERT that
\* ends as an update of the row in conflict has taken an id all the same.
NextId(seq) == seq + 1

\* INSERT OR REPLACE: the row is written anew, its counters with it.
upsertRowReplace(tbl, row, seq) ==
  [m \in DOMAIN tbl \cup {row.name} |->
     IF m = row.name
     THEN [id |-> IF m \in DOMAIN tbl THEN tbl[m].id ELSE NextId(seq),
           origin |-> row.origin, rank |-> row.rank,
           description |-> row.description, enabled |-> row.enabled,
           rpm_allowed |-> row.rpmAllowed, tpm_total |-> row.tpmTotal,
           rpd_total |-> row.rpdTotal, tpd_total |-> TpdTotalOf(row),
           successful_tasks |-> 0, failed_tasks |-> 0]
     ELSE tbl[m]]

\* INSERT INTO models ... ON CONFLICT(model) DO UPDATE SET ... (sqlite),
\* ON DUPLICATE KEY UPDATE ... (mysql): one row of a catalog.
upsertRow(tbl, row, seq) ==
  IF row.name \in DOMAIN tbl
  THEN [tbl EXCEPT ![row.name] =
          [@ EXCEPT !.origin = row.origin, !.rank = row.rank,
                    !.description = row.description, !.enabled = row.enabled,
                    !.rpm_allowed = row.rpmAllowed, !.tpm_total = row.tpmTotal,
                    !.rpd_total = row.rpdTotal, !.tpd_total = TpdTotalOf(row)]]
  ELSE [m \in DOMAIN tbl \cup {row.name} |->
          IF m = row.name
          THEN [id |-> NextId(seq), origin |-> row.origin, rank |-> row.rank,
                description |-> row.description, enabled |-> row.enabled,
                rpm_allowed |-> row.rpmAllowed, tpm_total |-> row.tpmTotal,
                rpd_total |-> row.rpdTotal, tpd_total |-> TpdTotalOf(row),
                successful_tasks |-> 0, failed_tasks |-> 0]
          ELSE tbl[m]]

\* seedModels(models): the loop over the rows; a row without limits is
\* skipped.
RECURSIVE seedModels(_, _, _)
seedModels(tbl, rows, seq) ==
  IF rows = <<>> THEN tbl
  ELSE IF HasLimits(Head(rows))
       THEN seedModels(upsertRow(tbl, Head(rows), seq), Tail(rows), NextId(seq))
       ELSE seedModels(tbl, Tail(rows), seq)

\* The last id handed out after seedModels(rows): one id for every row
\* that was not skipped.
RECURSIVE seedModelsLastId(_, _)
seedModelsLastId(rows, seq) ==
  IF rows = <<>> THEN seq
  ELSE seedModelsLastId(Tail(rows), IF HasLimits(Head(rows)) THEN NextId(seq) ELSE seq)

\* The catalogs seedModels is called with.
Catalogs ==
  [v1 |-> << [name |-> "A", origin |-> "google", rank |-> 3, description |-> "a",
              enabled |-> TRUE, rpmAllowed |-> 4, tpmTotal |-> 800,
              rpdTotal |-> 6, tpdTotal |-> 1200],
             [name |-> "F", origin |-> "groq", rank |-> 5, description |-> "f",
              enabled |-> TRUE],
             [name |-> "E", origin |-> "groq", rank |-> 0, description |-> "e",
              enabled |-> TRUE, rpmAllowed |-> 1, tpmTotal |-> 500,
              rpdTotal |-> 2] >>,
   v2 |-> << [name |-> "B", origin |-> "groq", rank |-> 4, description |-> "b",
              enabled |-> TRUE, rpmAllowed |-> 3, tpmTotal |-> 700,
              rpdTotal |-> 4, tpdTotal |-> 1100],
             [name |-> "A", origin |-> "google", rank |-> 1, description |-> "a",
              enabled |-> TRUE, rpmAllowed |-> 5, tpmTotal |-> 900,
              rpdTotal |-> 7, tpdTotal |-> 1300] >>]

\* The (model, success) pairs logTaskOutcome is called with.
OutcomeInputs == {<<"A", TRUE>>, <<"B", FALSE>>}

\* The position of the next row after pos that has limits (Len + 1: none).
NextPos(rows, pos) ==
  IF \E i \in (pos + 1)..Len(rows) : HasLimits(rows[i])
  THEN CHOOSE i \in (pos + 1)..Len(rows) :
         /\ HasLimits(rows[i])
         /\ \A j \in (pos + 1)..(i - 1) : ~HasLimits(rows[j])
  ELSE Len(rows) + 1

\* The storage calls begun so far in a storage run.
StoreCalls ==
  Len(task_logs) + Len(usage_logs) + Len(seeded) + changes
    + Cardinality({p \in Procs : op[p].kind \in {"seed", "usage"}})

SeedsBegun == Len(seeded) + Cardinality({p \in Procs : op[p].kind = "seed"})

SeedEnded(catalog, status, before) ==
  [catalog |-> catalog, status |-> status, before |-> before]

StoreInit ==
  /\ now = 0
  /\ ticks = 0
  /\ changes = 0
  /\ faults = 0
  /\ keys = Origins
  /\ models = LedgerCatalog
  /\ usage_logs = <<>>
  /\ task_logs = <<>>
  /\ TaskInit
  /\ driver \in Drivers
  /\ autoIncrement = LastId(models)
  /\ op = [p \in Procs |-> NoOp]
  /\ seeded = <<>>
  /\ usageCalls = <<>>
  /\ ChatIdle

\* SQLiteStorage.seedModels: the loop runs in one transaction, within the call.
SeedSqlite(p) ==
  /\ driver = "sqlite"
  /\ StoreCalls < MaxStoreCalls /\ SeedsBegun < MaxSeeds
  /\ \E c \in DOMAIN Catalogs :
       /\ models' = seedModels(models, Catalogs[c], autoIncrement)
       /\ autoIncrement' = seedModelsLastId(Catalogs[c], autoIncrement)
       /\ seeded' = Append(seeded, SeedEnded(c, "done", models))
  /\ UNCHANGED <<now, ticks, changes, faults, keys, usage_logs, task_logs, driver, op>>
  /\ UNCHANGED taskVars
  /\ UNCHANGED chatVars
  /\ UNCHANGED usageCalls

\* MySQLStorage.seedModels is called: createTables is awaited.
SeedBegin(p) ==
  /\ driver = "mysql"
  /\ op[p].kind = "none"
  /\ StoreCalls < MaxStoreCalls /\ SeedsBegun < MaxSeeds
  /\ \E c \in DOMAIN Catalogs :
       op' = [op EXCEPT ![p] = [kind |-> "seed", catalog |-> c,
                                pos |-> NextPos(Catalogs[c], 0), before |-> models]]
  /\ UNCHANGED <<ledgerVars, driver, autoIncrement, seeded>>
  /\ UNCHANGED taskVars
  /\ UNCHANGED chatVars
  /\ UNCHANGED usageCalls

\* MySQLStorage.seedModels: the awaited INSERT of one row is applied; after
\* the last one the call returns.
SeedRow(p) ==
  /\ op[p].kind = "seed"
  /\ LET rows == Catalogs[op[p].catalog]
         next == NextPos(rows, op[p].pos)
     IN /\ op[p].pos <= Len(rows)
        /\ models' = upsertRow(models, rows[op[p].pos], autoIncrement)
        /\ autoIncrement' = NextId(autoIncrement)
        /\ IF next <= Len(rows)
           THEN /\ op' = [op EXCEPT ![p].pos = next]
                /\ UNCHANGED seeded
           ELSE /\ op' = [op EXCEPT ![p] = NoOp]
                /\ seeded' = Append(seeded, SeedEnded(op[p].catalog, "done", op[p].before))
  /\ UNCHANGED <<now, ticks, changes, faults, keys, usage_logs, task_logs, driver>>
  /\ UNCHANGED taskVars
  /\ UNCHANGED chatVars
  /\ UNCHANGED usageCalls

\* MySQLStorage.seedModels: the awaited INSERT of a row is rejected; the
\* error leaves the loop and the call.
SeedFails(p) ==
  /\ op[p].kind = "seed"
  /\ op' = [op EXCEPT ![p] = NoOp]
  /\ seeded' = Append(seeded, SeedEnded(op[p].catalog, "failed", op[p].before))
  /\ UNCHANGED <<ledgerVars, driver, autoIncrement>>
  /\ UNCHANGED taskVars
  /\ UNCHANGED chatVars
  /\ UNCHANGED usageCalls

\* SQLiteStorage.logTaskOutcome: both statements run within the call, and
\* either of them can throw.
OutcomeSqlite(p) ==
  /\ driver = "sqlite"
  /\ StoreCalls < MaxStoreCalls /\ Len(task_logs) < MaxTaskLog
  /\ \E in \in OutcomeInputs, thrown \in WriteFaults :
       logTaskOutcome(in[1], p, in[2], 0,
                      IF in[2] THEN NoErrorMessage ELSE ProviderError, thrown)
  /\ UNCHANGED <<now, ticks, changes, faults, keys, usage_logs>>
  /\ UNCHANGED storeVars
  /\ UNCHANGED taskVars
  /\ UNCHANGED chatVars

\* MySQLStorage.logTaskOutcome: the awaited INSERT INTO task_logs is applied.
OutcomeInsert(p) ==
  /\ driver = "mysql"
  /\ op[p].kind = "none"
  /\ StoreCalls < MaxStoreCalls /\ Len(task_logs) < MaxTaskLog
  /\ \E in \in OutcomeInputs :
       /\ task_logs' = Append(task_logs,
            TaskRow(in[1], p, in[2],
                    IF in[2] THEN NoErrorMessage ELSE ProviderError, 0))
       /\ op' = [op EXCEPT ![p] = [kind |-> "outcome", model |-> in[1],
                                   success |-> in[2]]]
  /\ UNCHANGED <<now, ticks, changes, faults, keys, models, usage_logs, driver, autoIncrement, seeded>>
  /\ UNCHANGED taskVars
  /\ UNCHANGED chatVars
  /\ UNCHANGED usageCalls

\* MySQLStorage.logTaskOutcome: the awaited UPDATE models is applied and the
\* call returns.
OutcomeUpdate(p) ==
  /\ op[p].kind = "outcome"
  /\ op[p].model \in DOMAIN models
  /\ models' = IF op[p].success
               THEN [models EXCEPT ![op[p].model].successful_tasks = @ + 1]
               ELSE [models EXCEPT ![op[p].model].failed_tasks = @ + 1]
  /\ op' = [op EXCEPT ![p] = NoOp]
  /\ UNCHANGED <<now, ticks, changes, faults, keys, usage_logs, task_logs, driver, autoIncrement, seeded>>
  /\ UNCHANGED taskVars
  /\ UNCHANGED chatVars
  /\ UNCHANGED usageCalls

\* MySQLStorage.logTaskOutcome: the awaited UPDATE models is rejected.
OutcomeUpdateFails(p) ==
  /\ op[p].kind = "outcome"
  /\ op' = [op EXCEPT ![p] = NoOp]
  /\ UNCHANGED <<ledgerVars, driver, autoIncrement, seeded>>
  /\ UNCHANGED taskVars
  /\ UNCHANGED chatVars
  /\ UNCHANGED usageCalls

\* A row of usage_logs is stored over the model's last row.
insertUsageOverLast(row) ==
  usage_logs' =
    IF \E i \in 1..Len(usage_logs) : usage_logs[i].model = row.model
    THEN LET last == CHOOSE i \in 1..Len(usage_logs) :
                       /\ usage_logs[i].model = row.model
                       /\ \A j \in (i + 1)..Len(usage_logs) : usage_logs[j].model # row.model
         IN [usage_logs EXCEPT ![last] = row]
    ELSE Append(usage_logs, row)

\* INSERT INTO usage_logs (model, requests, tokens, timestamp) VALUES (?, ?, ?, ?)
insertUsage(row) == usage_logs' = Append(usage_logs, row)

\* A call of logModelUsage that has ended: its arguments, and how many
\* calls had ended when it began.
UsageCall(model, requests, tokens, after) ==
  [model |-> model, requests |-> requests, tokens |-> tokens, after |-> after]

\* SQLiteStorage.logModelUsage: the INSERT runs within the call.
UsageSqlite(p) ==
  /\ driver = "sqlite"
  /\ StoreCalls < MaxStoreCalls
  /\ \E m \in DOMAIN models, in \in UsageInputs :
       /\ insertUsage(UsageRow(m, in[1], in[2]))
       /\ usageCalls' = Append(usageCalls, UsageCall(m, in[1], in[2], Len(usageCalls)))
  /\ UNCHANGED <<now, ticks, changes, faults, keys, models, task_logs, driver, autoIncrement, op, seeded>>
  /\ UNCHANGED taskVars
  /\ UNCHANGED chatVars

\* MySQLStorage.logModelUsage is called: the timestamp is taken and the
\* INSERT awaited.
UsageBegin(p) ==
  /\ driver = "mysql"
  /\ op[p].kind = "none"
  /\ StoreCalls < MaxStoreCalls
  /\ \E m \in DOMAIN models, in \in UsageInputs :
       op' = [op EXCEPT ![p] = [kind |-> "usage", row |-> UsageRow(m, in[1], in[2]),
                                ended |-> Len(usageCalls)]]
  /\ UNCHANGED <<ledgerVars, driver, autoIncrement, seeded, usageCalls>>
  /\ UNCHANGED taskVars
  /\ UNCHANGED chatVars

\* MySQLStorage.logModelUsage: the awaited INSERT is applied and the call
\* returns.
UsageInsert(p) ==
  /\ op[p].kind = "usage"
  /\ insertUsage(op[p].row)
  /\ usageCalls' = Append(usageCalls,
                          UsageCall(op[p].row.model, op[p].row.requests,
                                    op[p].row.tokens, op[p].ended))
  /\ op' = [op EXCEPT ![p] = NoOp]
  /\ UNCHANGED <<now, ticks, changes, faults, keys, models, task_logs, driver, autoIncrement, seeded>>
  /\ UNCHANGED taskVars
  /\ UNCHANGED chatVars

\* MySQLStorage.logModelUsage: the awaited INSERT is rejected; the call
\* throws.
UsageFails(p) ==
  /\ op[p].kind = "usage"
  /\ op' = [op EXCEPT ![p] = NoOp]
  /\ UNCHANGED <<ledgerVars, driver, autoIncrement, seeded, usageCalls>>
  /\ UNCHANGED taskVars
  /\ UNCHANGED chatVars

\* disableModel is one statement with either driver.
StoreDisable == StoreCalls < MaxStoreCalls /\ DisableModel

StoreStep(p) ==
  \/ SeedSqlite(p) \/ SeedBegin(p) \/ SeedRow(p) \/ SeedFails(p)
  \/ OutcomeSqlite(p) \/ OutcomeInsert(p) \/ OutcomeUpdate(p)
  \/ OutcomeUpdateFails(p)
  \/ UsageSqlite(p) \/ UsageBegin(p) \/ UsageInsert(p) \/ UsageFails(p)

StoreNext == (\E p \in Procs : StoreStep(p)) \/ StoreDisable

StoreSpec == StoreInit /\ [][StoreNext]_vars

(***************************************************************************)
(* Provider registry (AdapterFactory).                                     *)
(***************************************************************************)
\* getAdapter(origin) returns an adapter iff the origin is supported and its
\* API key is set; otherwise it throws.
HasAdapter(origin) == origin \in Origins /\ origin \in keys

(***************************************************************************)
(* Candidate selector (MainAgent).                                         *)
(***************************************************************************)
\* getModelStats: the rows of models ORDER BY rank, each with the usage of
\* its model, all read within the call.
getModelStats ==
  LET order == OrderByRank(DOMAIN models) IN
  [i \in 1..Len(order) |->
     [name |-> order[i], origin |-> models[order[i]].origin,
      rank |-> models[order[i]].rank, enabled |-> models[order[i]].enabled,
      rpmAllowed |-> models[order[i]].rpm_allowed,
      tpmTotal |-> models[order[i]].tpm_total,
      rpdTotal |-> models[order[i]].rpd_total,
      rpmUsed |-> getModelUsage(order[i]).rpmUsed,
      tpmUsed |-> getModelUsage(order[i]).tpmUsed,
      rpdUsed |-> getModelUsage(order[i]).rpdUsed]]

\* One row of getModelStats as the selector keeps it.
StatsRow(row) ==
  [name |-> row.name, rank |-> row.rank,
   tpmTotal |-> row.tpmTotal, tpmUsed |-> row.tpmUsed]

\* The filter without its tests of the remaining requests.
IsCandidateAnyUsage(row) ==
  /\ row.enabled
  /\ HasAdapter(row.origin)
  /\ ~FailureRateExceeds(row.name, FailureRateThreshold)

\* The filter of getAvailableModelsWithStats on one row of getModelStats:
\* the row is as getModelStats returned it, the failure rate is read after
\* the await of getModelStats.
IsCandidate(row) ==
  /\ row.enabled
  /\ HasAdapter(row.origin)
  /\ ~FailureRateExceeds(row.name, FailureRateThreshold)
  /\ row.rpmAllowed - row.rpmUsed >= 1
  /\ row.rpdTotal - row.rpdUsed >= 1

\* getAvailableModelsWithStats from the failure rates on: the rows of
\* getModelStats filtered.
getAvailableModelsWithStats(rows) ==
  LET kept == SelectSeq(rows, IsCandidate)
  IN [i \in 1..Len(kept) |-> StatsRow(kept[i])]

\* verifyModelCapacity that takes the capacity for granted.
verifyModelCapacityAlways(modelName, estimatedTokens) == TRUE

\* verifyModelCapacity(modelName, estimatedTokens)
verifyModelCapacity(modelName, estimatedTokens) ==
  modelName \in Range(getAllAvailableModels(estimatedTokens + MinTokenBuffer))

\* fallbackSelection that takes the first row whatever its tokens.
fallbackSelectionFirst(rows, estimatedTokens) ==
  [selectedModel |-> rows[1].name, reasoning |-> "Fallback",
   estimatedTokens |-> estimatedTokens]

\* fallbackSelection(availableModels, estimatedTokens): the rows are in rank
\* order already and the sort is stable.
fallbackSelection(rows, estimatedTokens) ==
  LET suitable == SelectSeq(rows, LAMBDA r :
                     r.tpmTotal - r.tpmUsed >= estimatedTokens + MinTokenBuffer)
      selected == IF suitable # <<>> THEN suitable[1] ELSE rows[1]
  IN [selectedModel |-> selected.name, reasoning |-> "Fallback",
      estimatedTokens |-> estimatedTokens]

(***************************************************************************)
(* Task router (TaskExecutor).  One action per continuation of the async   *)
(* code: an action runs from one await to the next, and a ledger read or   *)
(* write belongs to the action in which the storage method is called.      *)
(* executeWithModel and retryWithFallback call each other; a frame that    *)
(* called the other only hands the callee's Result on, so the model keeps  *)
(* the innermost frame (models are never deleted, hence the lookups of     *)
(* lines 372 and 457 always find their row).                               *)
(***************************************************************************)
\* What the Decision Oracle may answer.
Estimates == {500}
OracleOutputs ==
  {[kind |-> "throws", selectedModel |-> "none", estimatedTokens |-> 0]} \cup
  {[kind |-> "answer", selectedModel |-> m, estimatedTokens |-> e] :
     m \in Names \cup {"unknown"}, e \in Estimates}

\* What a provider may return: the token count it reports (0: none) and the
\* length of the text.
ProviderResponses ==
  {[tokensUsed |-> 300, textLen |-> 12], [tokensUsed |-> 0, textLen |-> 1162]}
PromptLengths == {41}

\* Math.ceil(x / 4)
CeilDiv4(x) == (x + 3) \div 4

\* result.tokensUsed || Math.ceil((userTask.length + text.length) / 4)
TokensUsed(response, userTaskLen) ==
  IF response.tokensUsed # 0 THEN response.tokensUsed
  ELSE CeilDiv4(userTaskLen + response.textLen)

\* executeTask without its try/catch: the error reaches the caller.
executeTaskRethrow(p) ==
  /\ result' = [result EXCEPT ![p] = [Pending EXCEPT !.kind = "thrown"]]
  /\ pc' = [pc EXCEPT ![p] = "done"]

\* The Result of the catch branch of executeTask.
SelectionFailed ==
  [kind |-> "returned", success |-> FALSE, modelUsed |-> "none",
   tokensUsed |-> 0, error |-> TRUE]

executeTaskCatch(p) ==
  /\ result' = [result EXCEPT ![p] = SelectionFailed]
  /\ pc' = [pc EXCEPT ![p] = "done"]

\* The failure Result of executeWithModel when retryWithFallback gave null.
FailureOf(modelName) ==
  [kind |-> "returned", success |-> FALSE, modelUsed |-> modelName,
   tokensUsed |-> 0, error |-> TRUE]

SuccessOf(modelName, tokensUsed) ==
  [kind |-> "returned", success |-> TRUE, modelUsed |-> modelName,
   tokensUsed |-> tokensUsed, error |-> FALSE]

\* executeWithModel(modelName, ...) is entered, after ledgerReads calls of
\* the selection to the storage.
enterExecute(p, modelName, isFallback, ledgerReads) ==
  /\ cur' = [cur EXCEPT ![p] = modelName]
  /\ pc' = [pc EXCEPT ![p] = "exec"]
  /\ hist' = [hist EXCEPT ![p].attempts[modelName] = Bump(@),
                          ![p].last = modelName,
                          ![p].fallback = isFallback,
                          ![p].reads = @ + ledgerReads,
                          ![p].chosen = IF isFallback THEN @ ELSE modelName]

\* The emergency fallback over the models that have a provider only.
emergencyFallbackFiltered(p) ==
  LET list == SelectSeq(getAllAvailableModels(DefaultMinTokens),
                        LAMBDA m : HasAdapter(models[m].origin)) IN
  IF list # <<>>
  THEN /\ analysis' = [analysis EXCEPT ![p] =
                         [selectedModel |-> list[1], reasoning |-> "Emergency fallback",
                          estimatedTokens |-> DefaultMinTokens]]
       /\ enterExecute(p, list[1], FALSE, 1)
       /\ UNCHANGED result
  ELSE /\ executeTaskCatch(p)
       /\ hist' = [hist EXCEPT ![p].reads = @ + 1]
       /\ UNCHANGED <<analysis, cur>>

\* The emergency fallback of selectModelForTask (its catch branch).
emergencyFallback(p) ==
  LET list == getAllAvailableModels(DefaultMinTokens) IN
  IF list # <<>>
  THEN /\ analysis' = [analysis EXCEPT ![p] =
                         [selectedModel |-> list[1], reasoning |-> "Emergency fallback",
                          estimatedTokens |-> DefaultMinTokens]]
       /\ enterExecute(p, list[1], FALSE, 1)
       /\ UNCHANGED result
  ELSE /\ executeTaskCatch(p)
       /\ hist' = [hist EXCEPT ![p].reads = @ + 1]
       /\ UNCHANGED <<analysis, cur>>

\* executeTask is called: selectModelForTask calls
\* getAvailableModelsWithStats, which calls getModelStats and awaits it.
StartTask(p) ==
  /\ pc[p] = "idle"
  /\ \E len \in PromptLengths : promptLen' = [promptLen EXCEPT ![p] = len]
  /\ stats' = [stats EXCEPT ![p] = getModelStats]
  /\ availableModels' = [availableModels EXCEPT ![p] = <<>>]
  /\ pc' = [pc EXCEPT ![p] = "stats"]
  /\ result' = [result EXCEPT ![p] = Pending]
  /\ hist' = [hist EXCEPT ![p] = [NoHist EXCEPT !.reads = 1]]
  /\ triedModels' = [triedModels EXCEPT ![p] = {}]
  /\ failedModel' = [failedModel EXCEPT ![p] = "none"]
  /\ available' = [available EXCEPT ![p] = <<>>]
  /\ idx' = [idx EXCEPT ![p] = 0]
  /\ cur' = [cur EXCEPT ![p] = "none"]
  /\ analysis' = [analysis EXCEPT ![p] = [selectedModel |-> "none", reasoning |-> "Failed to select model",
                      estimatedTokens |-> 0]]
  /\ oracle' = [oracle EXCEPT ![p] = NoAnswer]
  /\ UNCHANGED ledgerVars
  /\ UNCHANGED storeVars
  /\ UNCHANGED chatVars

\* getAvailableModelsWithStats resumes with the rows of getModelStats: it
\* calls getModelFailureRate on every row, awaits the rates and filters.
ReadFailureRates(p) ==
  /\ pc[p] = "stats"
  /\ availableModels' = [availableModels EXCEPT ![p] =
                           getAvailableModelsWithStats(stats[p])]
  /\ stats' = [stats EXCEPT ![p] = <<>>]
  /\ pc' = [pc EXCEPT ![p] = "select"]
  /\ hist' = [hist EXCEPT ![p].eligible = Len(getAvailableModelsWithStats(stats[p])),
                          ![p].reads = @ + Len(stats[p])]
  /\ UNCHANGED <<analysis, cur, promptLen, triedModels, failedModel, available, idx, result>>
  /\ UNCHANGED ledgerVars
  /\ UNCHANGED oracle
  /\ UNCHANGED storeVars
  /\ UNCHANGED chatVars

\* The candidate rows are in: no candidate is an error, which the catch
\* branch answers with the emergency fallback.
NoCandidate(p) ==
  /\ pc[p] = "select"
  /\ availableModels[p] = <<>>
  /\ emergencyFallback(p)
  /\ UNCHANGED <<stats, availableModels, promptLen, triedModels, failedModel, available, idx>>
  /\ UNCHANGED ledgerVars
  /\ UNCHANGED oracle
  /\ UNCHANGED storeVars
  /\ UNCHANGED chatVars

\* buildModelsContext reads the failure rate of every candidate, and
\* consultMainAgent calls the oracle.
AskOracle(p) ==
  /\ pc[p] = "select"
  /\ availableModels[p] # <<>>
  /\ pc' = [pc EXCEPT ![p] = "consult"]
  /\ hist' = [hist EXCEPT ![p].consulted = Bump(@),
                          ![p].reads = @ + Len(availableModels[p])]
  /\ UNCHANGED <<stats, availableModels, analysis, cur, promptLen, triedModels, failedModel,
                 available, idx, result>>
  /\ UNCHANGED ledgerVars
  /\ UNCHANGED oracle
  /\ UNCHANGED storeVars
  /\ UNCHANGED chatVars

\* A failed consultation that is made again.
OracleFailsAsksAgain(p) ==
  /\ pc[p] = "consult"
  /\ hist' = [hist EXCEPT ![p].consulted = Bump(@)]
  /\ UNCHANGED <<stats, availableModels, analysis, cur, promptLen, triedModels, failedModel,
                 available, idx, result, pc>>
  /\ UNCHANGED ledgerVars
  /\ UNCHANGED oracle
  /\ UNCHANGED storeVars
  /\ UNCHANGED chatVars

\* consultMainAgent threw (provider error, no JSON, a required field missing).
OracleFails(p) ==
  /\ pc[p] = "consult"
  /\ oracle' = [oracle EXCEPT ![p] = [NoAnswer EXCEPT !.kind = "throws"]]
  /\ emergencyFallback(p)
  /\ UNCHANGED <<stats, availableModels, promptLen, triedModels, failedModel, available, idx>>
  /\ UNCHANGED ledgerVars
  /\ UNCHANGED storeVars
  /\ UNCHANGED chatVars

\* The decision after a well-formed answer of the oracle.
decide(rows, answer) ==
  IF /\ \E i \in 1..Len(rows) : rows[i].name = answer.selectedModel
     /\ verifyModelCapacity(answer.selectedModel, answer.estimatedTokens)
  THEN [selectedModel |-> answer.selectedModel, reasoning |-> "oracle",
        estimatedTokens |-> answer.estimatedTokens]
  ELSE fallbackSelection(rows, answer.estimatedTokens)

\* verifyModelCapacity reads the ledger when the answer names a candidate.
verifyReads(rows, answer) ==
  IF \E i \in 1..Len(rows) : rows[i].name = answer.selectedModel THEN 1 ELSE 0

OracleAnswers(p) ==
  /\ pc[p] = "consult"
  /\ \E answer \in OracleOutputs :
       /\ answer.kind = "answer"
       /\ oracle' = [oracle EXCEPT ![p] = answer]
       /\ analysis' = [analysis EXCEPT ![p] = decide(availableModels[p], answer)]
       /\ enterExecute(p, decide(availableModels[p], answer).selectedModel, FALSE,
                       verifyReads(availableModels[p], answer))
  /\ UNCHANGED <<stats, availableModels, promptLen, triedModels, failedModel, available, idx, result>>
  /\ UNCHANGED ledgerVars
  /\ UNCHANGED storeVars
  /\ UNCHANGED chatVars

\* The ledger writes of executeTask calls that throw during a run, and the
\* outcomes the next such write can have.
MaxFaults == 1
ThrownBy(p) ==
  IF faults < MaxFaults THEN WriteFaults ELSE {"none"}

\* executeWithModel throws out of its catch branch. Called from the loop of
\* retryWithFallback, the catch of the loop adds the model to triedModels
\* and the loop goes on with the next model of the list, or ends: null is
\* returned and the executeWithModel that called retryWithFallback returns
\* its failure Result. Called from executeTask, its catch returns.
executeWithModelThrows(p) ==
  IF hist[p].fallback
  THEN /\ triedModels' = [triedModels EXCEPT ![p] = @ \cup {cur[p]}]
       /\ IF idx[p] < Len(available[p])
          THEN /\ idx' = [idx EXCEPT ![p] = @ + 1]
               /\ pc' = [pc EXCEPT ![p] = "loop"]
               /\ UNCHANGED result
          ELSE /\ result' = [result EXCEPT ![p] = FailureOf(failedModel[p])]
               /\ pc' = [pc EXCEPT ![p] = "done"]
               /\ UNCHANGED idx
  ELSE /\ executeTaskCatch(p)
       /\ UNCHANGED <<triedModels, idx>>

\* The catch branch without its logTaskOutcome call.
recordFailureUnlogged(p, errorMessage) ==
  /\ pc' = [pc EXCEPT ![p] = "retry"]
  /\ hist' = [hist EXCEPT
                ![p].threw[cur[p]] = IF errorMessage = LedgerError THEN @ ELSE Bump(@),
                ![p].failed[cur[p]] = Bump(@)]
  /\ UNCHANGED <<task_logs, models, faults, triedModels, idx, result>>

\* The catch branch of executeWithModel up to the call of retryWithFallback:
\* logTaskOutcome(modelName, taskType, false, 0, error.message), which can
\* throw.
recordFailure(p, errorMessage) ==
  \E thrown \in ThrownBy(p) :
    /\ logTaskOutcome(cur[p], p, FALSE, 0, errorMessage, thrown)
    /\ hist' = [hist EXCEPT
                  ![p].threw[cur[p]] = IF errorMessage = LedgerError THEN @ ELSE Bump(@),
                  ![p].failed[cur[p]] = IF thrown = "none" THEN Bump(@) ELSE @]
    /\ IF thrown = "none"
       THEN /\ pc' = [pc EXCEPT ![p] = "retry"]
            /\ UNCHANGED <<faults, triedModels, idx, result>>
       ELSE /\ faults' = faults + 1
            /\ executeWithModelThrows(p)

\* executeWithModel resumes after getModelStats: the adapter is looked up
\* and the provider called.
CallProvider(p) ==
  /\ pc[p] = "exec"
  /\ IF HasAdapter(models[cur[p]].origin)
     THEN /\ pc' = [pc EXCEPT ![p] = "call"]
          /\ UNCHANGED <<models, task_logs, faults, hist, triedModels, idx, result>>
     ELSE /\ Len(task_logs) < MaxTaskLog
          /\ recordFailure(p, NoAdapterError)
  /\ UNCHANGED <<now, ticks, changes, keys, usage_logs>>
  /\ UNCHANGED <<stats, availableModels, analysis, cur, promptLen, failedModel,
                 available>>
  /\ UNCHANGED oracle
  /\ UNCHANGED storeVars
  /\ UNCHANGED chatVars

\* generateContent throws.
ProviderThrows(p) ==
  /\ pc[p] = "call"
  /\ Len(task_logs) < MaxTaskLog
  /\ recordFailure(p, ProviderError)
  /\ UNCHANGED <<now, ticks, changes, keys, usage_logs>>
  /\ UNCHANGED <<stats, availableModels, analysis, cur, promptLen, failedModel,
                 available>>
  /\ UNCHANGED oracle
  /\ UNCHANGED storeVars
  /\ UNCHANGED chatVars

\* generateContent returns: logModelUsage is called; its INSERT is applied
\* or throws.
ProviderReturns(p) ==
  /\ pc[p] = "call"
  /\ \E response \in ProviderResponses, thrown \in ThrownBy(p) \ {"update"} :
       LET tokensUsed == TokensUsed(response, promptLen[p]) IN
       /\ result' = [result EXCEPT ![p] = [Pending EXCEPT !.tokensUsed = tokensUsed]]
       /\ IF thrown = "none"
          THEN /\ logModelUsage(cur[p], 1, tokensUsed)
               /\ hist' = [hist EXCEPT ![p].usage[cur[p]] = Bump(@),
                                       ![p].response = response]
               /\ pc' = [pc EXCEPT ![p] = "outcome"]
               /\ UNCHANGED faults
          ELSE /\ UNCHANGED usage_logs
               /\ faults' = faults + 1
               /\ hist' = [hist EXCEPT ![p].response = response]
               /\ pc' = [pc EXCEPT ![p] = "catch"]
  /\ UNCHANGED <<now, ticks, changes, keys, models, task_logs>>
  /\ UNCHANGED <<stats, availableModels, analysis, cur, promptLen, triedModels, failedModel,
                 available, idx>>
  /\ UNCHANGED oracle
  /\ UNCHANGED storeVars
  /\ UNCHANGED chatVars

\* The outcome is logged and the success Result returned, or logTaskOutcome
\* throws.
RecordSuccess(p) ==
  /\ pc[p] = "outcome"
  /\ Len(task_logs) < MaxTaskLog
  /\ \E thrown \in ThrownBy(p) :
       /\ logTaskOutcome(cur[p], p, TRUE, result[p].tokensUsed, NoErrorMessage, thrown)
       /\ IF thrown = "none"
          THEN /\ result' = [result EXCEPT ![p] = SuccessOf(cur[p], result[p].tokensUsed)]
               /\ pc' = [pc EXCEPT ![p] = "done"]
               /\ hist' = [hist EXCEPT ![p].succeeded[cur[p]] = Bump(@)]
               /\ UNCHANGED faults
          ELSE /\ pc' = [pc EXCEPT ![p] = "catch"]
               /\ faults' = faults + 1
               /\ UNCHANGED <<result, hist>>
  /\ UNCHANGED <<now, ticks, changes, keys, usage_logs>>
  /\ UNCHANGED <<stats, availableModels, analysis, cur, promptLen, triedModels, failedModel,
                 available, idx>>
  /\ UNCHANGED oracle
  /\ UNCHANGED storeVars
  /\ UNCHANGED chatVars

\* A ledger write after the provider's answer threw: the catch branch of
\* executeWithModel runs with the error of the ledger.
LedgerThrows(p) ==
  /\ pc[p] = "catch"
  /\ Len(task_logs) < MaxTaskLog
  /\ recordFailure(p, LedgerError)
  /\ UNCHANGED <<now, ticks, changes, keys, usage_logs>>
  /\ UNCHANGED <<stats, availableModels, analysis, cur, promptLen, failedModel,
                 available>>
  /\ UNCHANGED oracle
  /\ UNCHANGED storeVars
  /\ UNCHANGED chatVars

\* The list retryWithFallback iterates.
fallbackList(estimatedTokens, tried) ==
  SelectSeq(getAllAvailableModels(estimatedTokens), LAMBDA m : m \notin tried)

\* retryWithFallback(userTask, taskType, failedModel, originalAnalysis) as
\* executeWithModel calls it: triedModels is a new Set.
RetryWithFallback(p) ==
  /\ pc[p] = "retry"
  /\ LET tried == {} \cup {cur[p]}
         list == fallbackList(analysis[p].estimatedTokens, tried)
     IN /\ triedModels' = [triedModels EXCEPT ![p] = tried]
        /\ failedModel' = [failedModel EXCEPT ![p] = cur[p]]
        /\ hist' = [hist EXCEPT
                      ![p].grown = @ /\ triedModels[p] \subseteq tried,
                      ![p].overThreshold =
                         {m \in Range(list) : FailureRateExceeds(m, FailureRateThreshold)}]
        /\ IF Cardinality(tried) >= MaxRetryModels \/ list = <<>>
           THEN /\ result' = [result EXCEPT ![p] = FailureOf(cur[p])]
                /\ pc' = [pc EXCEPT ![p] = "done"]
                /\ UNCHANGED <<available, idx>>
           ELSE /\ available' = [available EXCEPT ![p] = list]
                /\ idx' = [idx EXCEPT ![p] = 1]
                /\ pc' = [pc EXCEPT ![p] = "loop"]
                /\ UNCHANGED result
  /\ UNCHANGED <<stats, availableModels, analysis, cur, promptLen>>
  /\ UNCHANGED ledgerVars
  /\ UNCHANGED oracle
  /\ UNCHANGED storeVars
  /\ UNCHANGED chatVars

\* One pass of the loop of retryWithFallback over a model without adapter.
SkipFallback(p) ==
  /\ pc[p] = "loop"
  /\ ~HasAdapter(models[available[p][idx[p]]].origin)
  /\ triedModels' = [triedModels EXCEPT ![p] = @ \cup {available[p][idx[p]]}]
  /\ IF idx[p] < Len(available[p])
     THEN /\ idx' = [idx EXCEPT ![p] = @ + 1]
          /\ UNCHANGED <<pc, result>>
     ELSE /\ result' = [result EXCEPT ![p] = FailureOf(failedModel[p])]
          /\ pc' = [pc EXCEPT ![p] = "done"]
          /\ UNCHANGED idx
  /\ UNCHANGED <<stats, availableModels, analysis, cur, promptLen, failedModel,
                 available, hist>>
  /\ UNCHANGED ledgerVars
  /\ UNCHANGED oracle
  /\ UNCHANGED storeVars
  /\ UNCHANGED chatVars

\* One pass of the loop over a model with adapter: executeWithModel is
\* called with it and its Result returned.
TryFallback(p) ==
  /\ pc[p] = "loop"
  /\ HasAdapter(models[available[p][idx[p]]].origin)
  /\ enterExecute(p, available[p][idx[p]], TRUE, 0)
  /\ analysis' = [analysis EXCEPT ![p].selectedModel = available[p][idx[p]],
                                  ![p].reasoning = "Fallback after failure"]
  /\ UNCHANGED <<stats, availableModels, promptLen, triedModels, failedModel,
                 available, idx, result>>
  /\ UNCHANGED ledgerVars
  /\ UNCHANGED oracle
  /\ UNCHANGED storeVars
  /\ UNCHANGED chatVars

\* The steps of a call in a run whose ledger writes do not throw.
AppliedStep(p) ==
  \/ StartTask(p) \/ ReadFailureRates(p) \/ NoCandidate(p) \/ AskOracle(p) \/ OracleFails(p)
  \/ OracleAnswers(p) \/ CallProvider(p) \/ ProviderThrows(p)
  \/ ProviderReturns(p) \/ RecordSuccess(p) \/ RetryWithFallback(p)
  \/ SkipFallback(p) \/ TryFallback(p)

\* The steps of a call.
TaskStep(p) == AppliedStep(p) \/ LedgerThrows(p)

\* The catalog the router runs on.
RouterCatalog ==
  [m \in Names |->
     CASE m = "A" -> ModelRow(1, "google", 1, 2, 1000, 5, 5000)
       [] m = "B" -> ModelRow(2, "groq", 2, 2, 1000, 5, 5000)
       [] m = "C" -> ModelRow(3, "google", 3, 2, 1000, 5, 5000)
       [] m = "D" -> ModelRow(4, "groq", 4, 2, 1000, 5, 5000)]

\* The main agent's origin is google: its key is always set.
KeySets == {{"google", "groq"}, {"google"}}

Callers == {1}

\* The models disabled before the run starts.
DisabledAtStart == {{}, {"C", "D"}}

\* The outcomes earlier tasks left in task_logs: none, or one failure of B
\* (task 0, at second 0).
EarlierFailures == {{}, {"B"}}

\* The usage earlier tasks left in usage_logs: none, one call of A at second
\* 0 that took most of its tokens-per-minute quota, two calls of A at second
\* 0, its requests-per-minute quota, or one call of A an hour before second
\* 0 that took most of its tokens-per-day quota.
EarlierUsage ==
  {<<>>,
   <<[model |-> "A", requests |-> 1, tokens |-> 900, timestamp |-> 0]>>,
   <<[model |-> "A", requests |-> 2, tokens |-> 100, timestamp |-> 0]>>,
   <<[model |-> "A", requests |-> 1, tokens |-> 4500, timestamp |-> 0 - 3600]>>}

EarlierRow(model) ==
  [model |-> model, task_type |-> 0, success |-> FALSE,
   error_message |-> ProviderError, tokens_used |-> 0, timestamp |-> 0]

\* The catalog may be changed while the call runs; no write of the run
\* throws.
Init ==
  /\ now = 0
  /\ ticks = 0
  /\ changes = 0
  /\ faults = MaxFaults
  /\ keys \in KeySets
  /\ \E off \in DisabledAtStart, earlier \in EarlierFailures :
       /\ models = [m \in Names |->
                      [RouterCatalog[m] EXCEPT
                         !.enabled = m \notin off,
                         !.failed_tasks = IF m \in earlier THEN 1 ELSE 0]]
       /\ task_logs = IF earlier = {} THEN <<>> ELSE <<EarlierRow("B")>>
  /\ usage_logs \in EarlierUsage
  /\ TaskInit
  /\ StoreIdle
  /\ ChatIdle

Run == \E p \in Callers : AppliedStep(p)

\* enableModel / disableModel is called while executeTask runs, before it or
\* after it.
CatalogChange == DisableModel \/ EnableModel

Next == Run \/ CatalogChange

Spec == Init /\ [][Next]_vars

(***************************************************************************)
(* The router on a ledger whose writes may throw.  The catalog has been    *)
(* changed before the run (no model, C and D, or all but A are disabled),  *)
(* the logs are empty, and the catalog is changed once more before, while  *)
(* or after the call runs.                                                 *)
(***************************************************************************)
FaultInit ==
  /\ now = 0
  /\ ticks = 0
  /\ changes = MaxChanges - 1
  /\ faults = 0
  /\ keys \in KeySets
  /\ \E off \in DisabledAtStart \cup {{"B", "C", "D"}} :
       models = [m \in Names |-> [RouterCatalog[m] EXCEPT !.enabled = m \notin off]]
  /\ task_logs = <<>>
  /\ usage_logs = <<>>
  /\ TaskInit
  /\ StoreIdle
  /\ ChatIdle

FaultRun == \E p \in Callers : TaskStep(p)

FaultNext == FaultRun \/ CatalogChange

FaultSpec == FaultInit /\ [][FaultNext]_vars

(***************************************************************************)
(* Failure rate and retention of the two logs.                             *)
(***************************************************************************)
MaxOutcomes == 3

\* getModelFailureRate(model, timeWindowSeconds): the number returned, as
\* the fraction num / den (0 when the window holds no row, else
\* (failed_tasks / total_tasks) * 100).
getModelFailureRate(model, timeWindowSeconds) ==
  LET counts == FailureCounts(model, timeWindowSeconds) IN
  IF counts.total_tasks = 0 THEN [num |-> 0, den |-> 1]
  ELSE [num |-> counts.failed_tasks * 100, den |-> counts.total_tasks]

\* The clock advances of a failure-rate run: one second, and the window.
RateSteps == {1, FailureRateWindow}

\* The (model, success) pairs logTaskOutcome is called with.
RateOutcomes == {<<"A", TRUE>>, <<"A", FALSE>>, <<"B", FALSE>>}

\* The windows getModelFailureRate is called with.
WindowInputs == {MinuteWindow, FailureRateWindow}

RateTick ==
  /\ ticks < MaxTicks
  /\ \E d \in RateSteps : now' = now + d
  /\ ticks' = ticks + 1
  /\ UNCHANGED <<changes, faults, keys, models, usage_logs, task_logs>>
  /\ UNCHANGED taskVars
  /\ UNCHANGED storeVars
  /\ UNCHANGED chatVars

\* A caller records the outcome of a task.
RecordOutcome ==
  /\ Len(task_logs) < MaxOutcomes
  /\ \E in \in RateOutcomes, thrown \in WriteFaults :
       logTaskOutcome(in[1], 1, in[2], 0,
                      IF in[2] THEN NoErrorMessage ELSE ProviderError, thrown)
  /\ UNCHANGED <<now, ticks, changes, faults, keys, usage_logs>>
  /\ UNCHANGED taskVars
  /\ UNCHANGED storeVars
  /\ UNCHANGED chatVars

RateNext == RateTick \/ RecordOutcome

RateSpec == LedgerInit /\ [][RateNext]_vars

UsageRetention == 86400
DaysToKeep == 7

\* The clock advances of a retention run: one second, a day, six days.
RetentionSteps == {1, DayWindow, 6 * DayWindow}

\* The tokens a task of a retention run uses.
RetentionTokens == {300}

\* cleanupOldLogs with the minute in place of the day.
cleanupOldLogsMinute ==
  SelectSeq(usage_logs, LAMBDA r : ~(r.timestamp < now - MinuteWindow))

\* cleanupOldLogs: DELETE FROM usage_logs WHERE timestamp < ? (the rows left)
cleanupOldLogs ==
  SelectSeq(usage_logs, LAMBDA r : ~(r.timestamp < now - UsageRetention))

\* cleanupOldTaskLogs(daysToKeep): DELETE FROM task_logs WHERE timestamp < ?
cleanupOldTaskLogs(daysToKeep) ==
  SelectSeq(task_logs, LAMBDA r : ~(r.timestamp < now - daysToKeep * 86400))

RetentionTick ==
  /\ ticks < MaxTicks
  /\ \E d \in RetentionSteps : now' = now + d
  /\ ticks' = ticks + 1
  /\ UNCHANGED <<changes, faults, keys, models, usage_logs, task_logs>>
  /\ UNCHANGED taskVars
  /\ UNCHANGED storeVars
  /\ UNCHANGED chatVars

\* The callers that run tasks while the maintenance runs.
Workers == Procs \ Callers

\* The tasks of a retention run whose rows are in task_logs or are about
\* to be written there.
MaxTasks == 2
TasksBegun ==
  Len(task_logs) + Cardinality({p \in Workers : op[p].kind = "task"})

\* A task ended well on model A: executeWithModel logs its usage and
\* awaits.
TaskSucceeded(p) ==
  /\ op[p].kind = "none"
  /\ TasksBegun < MaxTasks
  /\ \E tokens \in RetentionTokens :
       /\ logModelUsage("A", 1, tokens)
       /\ op' = [op EXCEPT ![p] = [kind |-> "task", tokens |-> tokens]]
  /\ UNCHANGED <<now, ticks, changes, faults, keys, models, task_logs>>
  /\ UNCHANGED <<driver, autoIncrement, seeded, usageCalls>>
  /\ UNCHANGED taskVars
  /\ UNCHANGED chatVars

\* executeWithModel resumes and logs the outcome of the task (the writes of
\* the tasks of a retention run are applied).
TaskLogged(p) ==
  /\ op[p].kind = "task"
  /\ logTaskOutcome("A", 1, TRUE, op[p].tokens, NoErrorMessage, "none")
  /\ op' = [op EXCEPT ![p] = NoOp]
  /\ UNCHANGED <<now, ticks, changes, faults, keys, usage_logs>>
  /\ UNCHANGED <<driver, autoIncrement, seeded, usageCalls>>
  /\ UNCHANGED taskVars
  /\ UNCHANGED chatVars

\* A task failed on model A: its outcome is logged.
TaskFailed ==
  /\ TasksBegun < MaxTasks
  /\ logTaskOutcome("A", 1, FALSE, 0, ProviderError, "none")
  /\ UNCHANGED <<now, ticks, changes, faults, keys, usage_logs>>
  /\ UNCHANGED taskVars
  /\ UNCHANGED storeVars
  /\ UNCHANGED chatVars

\* Database maintenance is run: cleanupOldLogs is called and awaited.
CleanupOldLogs(p) ==
  /\ op[p].kind \in {"none", "cleaned"}
  /\ usage_logs' = cleanupOldLogs
  /\ op' = [op EXCEPT ![p] = [kind |-> "cleanup",
                              cleanedUsage |-> Len(usage_logs) - Len(cleanupOldLogs)]]
  /\ UNCHANGED <<now, ticks, changes, faults, keys, models, task_logs>>
  /\ UNCHANGED <<driver, autoIncrement, seeded, usageCalls>>
  /\ UNCHANGED taskVars
  /\ UNCHANGED chatVars

\* Database maintenance: cleanupOldTaskLogs(7) is called and awaited, and
\* the two counts are printed.
CleanupOldTaskLogs(p) ==
  /\ op[p].kind = "cleanup"
  /\ task_logs' = cleanupOldTaskLogs(DaysToKeep)
  /\ op' = [op EXCEPT ![p] = [kind |-> "cleaned", cleanedUsage |-> op[p].cleanedUsage,
                              cleanedTasks |-> Len(task_logs) - Len(cleanupOldTaskLogs(DaysToKeep))]]
  /\ UNCHANGED <<now, ticks, changes, faults, keys, models, usage_logs>>
  /\ UNCHANGED <<driver, autoIncrement, seeded, usageCalls>>
  /\ UNCHANGED taskVars
  /\ UNCHANGED chatVars

RetentionNext ==
  \/ RetentionTick \/ TaskFailed
  \/ \E p \in Workers : TaskSucceeded(p) \/ TaskLogged(p)
  \/ \E p \in Callers : CleanupOldLogs(p) \/ CleanupOldTaskLogs(p)

RetentionSpec == LedgerInit /\ [][RetentionNext]_vars

(***************************************************************************)
(* Strings.                                                                *)
(***************************************************************************)
\* A literal piece of text, kept whole.
Literal(text) == <<CharRun(text, 1)>>

\* ch.repeat(n)
Repeat(ch, n) == IF n = 0 THEN <<>> ELSE <<CharRun(ch, n)>>

\* s.length
RECURSIVE StrLen(_)
StrLen(s) == IF s = <<>> THEN 0 ELSE Head(s).n + StrLen(Tail(s))

\* s.slice(0, k)
RECURSIVE SliceFromStart(_, _)
SliceFromStart(s, k) ==
  IF s = <<>> \/ k <= 0 THEN <<>>
  ELSE IF Head(s).n <= k
       THEN <<Head(s)>> \o SliceFromStart(Tail(s), k - Head(s).n)
       ELSE <<CharRun(Head(s).ch, k)>>

\* lines.join("\n")
RECURSIVE JoinLines(_)
JoinLines(lines) ==
  IF lines = <<>> THEN <<>>
  ELSE IF Len(lines) = 1 THEN Head(lines)
  ELSE Head(lines) \o Literal("\n") \o JoinLines(Tail(lines))

(***************************************************************************)
(* Session memory (SessionMemory): the recent turns of a channel.  Its     *)
(* methods are synchronous; Date.now() is 1000 * now.  The timestamp of an *)
(* entry is written and never read, and is left out.                       *)
(***************************************************************************)
MAX_ENTRIES == 10
TTL_MS == 3600000
MaxContentChars == 500
MaxAdds == 11

DateNow == now * 1000

\* The clock advances of a session run: up to the edge of the TTL, and one
\* second.
SessionSteps == {TTL_MS \div 1000, 1}

Hello == <<CharRun("H", 1), CharRun("e", 1), CharRun("l", 2), CharRun("o", 1)>>

\* The (role, content) pairs add is called with.
AddInputs == {<<"user", Repeat("a", 1000)>>, <<"bot", Hello>>}

SessionEntry(role, content) == [role |-> role, content |-> content]

\* add that drops the newest entries instead of the oldest.
addKeepOldest(channelId, role, content) ==
  LET trimmed == SliceFromStart(content, MaxContentChars)
      entries == IF sessions[channelId].exists
                 THEN sessions[channelId].entries ELSE <<>>
      pushed == Append(entries, SessionEntry(role, trimmed))
  IN [sessions EXCEPT ![channelId] =
        [exists |-> TRUE,
         entries |-> IF Len(pushed) > MAX_ENTRIES
                     THEN SubSeq(pushed, 1, MAX_ENTRIES)
                     ELSE pushed,
         lastActive |-> DateNow]]

\* add(channelId, role, content): the map sessions after the call.
add(channelId, role, content) ==
  LET trimmed == SliceFromStart(content, MaxContentChars)
      entries == IF sessions[channelId].exists
                 THEN sessions[channelId].entries ELSE <<>>
      pushed == Append(entries, SessionEntry(role, trimmed))
  IN [sessions EXCEPT ![channelId] =
        [exists |-> TRUE,
         entries |-> IF Len(pushed) > MAX_ENTRIES
                     THEN SubSeq(pushed, Len(pushed) - MAX_ENTRIES + 1, Len(pushed))
                     ELSE pushed,
         lastActive |-> DateNow]]

\* `[${e.role === "bot" ? "Assistant" : "User"}]: ${e.content}`
EntryLine(e) ==
  Literal(IF e.role = "bot" THEN "[Assistant]: " ELSE "[User]: ") \o e.content

\* `Previous conversation:\n${lines}\n\n`
formatEntries(entries) ==
  Literal("Previous conversation:\n")
    \o JoinLines([i \in 1..Len(entries) |-> EntryLine(entries[i])])
    \o Literal("\n\n")

\* Date.now() - session.lastActive > TTL_MS, with >= for >.
ExpiredAtEdge(session) == DateNow - session.lastActive >= TTL_MS

Expired(session) == DateNow - session.lastActive > TTL_MS

SessionInit ==
  /\ now = 0
  /\ ticks = 0
  /\ changes = 0
  /\ faults = 0
  /\ keys = Origins
  /\ models = LedgerCatalog
  /\ usage_logs = <<>>
  /\ task_logs = <<>>
  /\ TaskInit
  /\ StoreIdle
  /\ ChatIdle

UnchangedBySession ==
  /\ UNCHANGED <<changes, faults, keys, models, usage_logs, task_logs>>
  /\ UNCHANGED taskVars
  /\ UNCHANGED storeVars
  /\ UNCHANGED contextVars
  /\ UNCHANGED reminderVars

SessionTick ==
  /\ ticks < MaxTicks
  /\ \E d \in SessionSteps : now' = now + d
  /\ ticks' = ticks + 1
  /\ formatted' = [c \in Channels |-> NotCalled]
  /\ UNCHANGED <<sessions, added>>
  /\ UnchangedBySession

\* sessionMemory.add(channelId, role, content)
Add(c) ==
  /\ Len(added[c].log) < MaxAdds
  /\ \E in \in AddInputs :
       /\ sessions' = add(c, in[1], in[2])
       /\ added' = [added EXCEPT ![c] =
                      [log |-> Append(@.log, SessionEntry(in[1], in[2])),
                       last |-> DateNow]]
  /\ formatted' = [d \in Channels |-> NotCalled]
  /\ UNCHANGED <<now, ticks>>
  /\ UnchangedBySession

\* sessionMemory.format(channelId)
Format(c) ==
  /\ LET session == sessions[c] IN
     IF ~session.exists \/ session.entries = <<>>
     THEN /\ formatted' = [formatted EXCEPT ![c] = <<>>]
          /\ UNCHANGED <<sessions, added>>
     ELSE IF Expired(session)
     THEN /\ sessions' = [sessions EXCEPT ![c] = NoSession]
          /\ added' = [added EXCEPT ![c].log = <<>>]
          /\ formatted' = [formatted EXCEPT ![c] = <<>>]
     ELSE /\ formatted' = [formatted EXCEPT ![c] = formatEntries(session.entries)]
          /\ UNCHANGED <<sessions, added>>
  /\ UNCHANGED <<now, ticks>>
  /\ UnchangedBySession

\* sessionMemory.clear(channelId)
Clear(c) ==
  /\ sessions[c].exists
  /\ sessions' = [sessions EXCEPT ![c] = NoSession]
  /\ added' = [added EXCEPT ![c].log = <<>>, ![c].last = -1]
  /\ formatted' = [d \in Channels |-> NotCalled]
  /\ UNCHANGED <<now, ticks>>
  /\ UnchangedBySession

\* sessionMemory.cleanup()
Cleanup ==
  /\ \E c \in Channels : sessions[c].exists /\ Expired(sessions[c])
  /\ sessions' = [c \in Channels |->
                    IF sessions[c].exists /\ Expired(sessions[c])
                    THEN NoSession ELSE sessions[c]]
  /\ added' = [c \in Channels |->
                 IF sessions[c].exists /\ Expired(sessions[c])
                 THEN [added[c] EXCEPT !.log = <<>>] ELSE added[c]]
  /\ formatted' = [d \in Channels |-> NotCalled]
  /\ UNCHANGED <<now, ticks>>
  /\ UnchangedBySession

SessionNext ==
  \/ SessionTick
  \/ \E c \in Channels : Add(c) \/ Format(c) \/ Clear(c)
  \/ Cleanup

SessionSpec == SessionInit /\ [][SessionNext]_vars

(***************************************************************************)
(* Reply-chain context (buildContext).  The walk is suspended at each      *)
(* fetch; the message a fetch returns is an input of the step.  The k-th   *)
(* message up the chain has id k.                                          *)
(***************************************************************************)
MAX_CHAIN_DEPTH == 5
MAX_MESSAGE_CHARS == 500
MAX_CHAIN_AGE_MS == 1800000

\* The mention of the bot, `<@botId>`, as one character.
Mention == CharRun("<@bot>", 1)

\* The runs of s after its leading whitespace.
RECURSIVE DropSpaces(_)
DropSpaces(s) ==
  IF s = <<>> THEN <<>>
  ELSE IF Head(s).ch = " " THEN DropSpaces(Tail(s)) ELSE s

RECURSIVE DropTrailingSpaces(_)
DropTrailingSpaces(s) ==
  IF s = <<>> THEN <<>>
  ELSE IF s[Len(s)].ch = " " THEN DropTrailingSpaces(SubSeq(s, 1, Len(s) - 1))
  ELSE s

\* s.replace(new RegExp(`<@!?${botId}>\\s*`, "g"), "")
RECURSIVE RemoveMentions(_)
RemoveMentions(s) ==
  IF s = <<>> THEN <<>>
  ELSE IF Head(s) = Mention THEN RemoveMentions(DropSpaces(Tail(s)))
  ELSE <<Head(s)>> \o RemoveMentions(Tail(s))

\* s.trim()
Trim(s) == DropTrailingSpaces(DropSpaces(s))

\* extractContent(msg, botId); description is the description of the first
\* embed, "" when there is no embed or it has none.
extractContent(msg) ==
  IF msg.fromBot /\ msg.description # <<>>
  THEN SliceFromStart(msg.description, MAX_MESSAGE_CHARS)
  ELSE SliceFromStart(Trim(RemoveMentions(msg.content)), MAX_MESSAGE_CHARS)

ContextEntry(role, content) == [role |-> role, content |-> content]

\* chain.push(entry)
push(list, entry) == Append(list, entry)

\* chain.unshift(entry)
unshift(list, entry) == <<entry>> \o list

\* The age test with Date.now() taken in seconds.
TooOldInSeconds(msg) == now - msg.createdTimestamp > MAX_CHAIN_AGE_MS

\* Date.now() - refMsg.createdTimestamp > MAX_CHAIN_AGE_MS
TooOld(msg) == DateNow - msg.createdTimestamp > MAX_CHAIN_AGE_MS

\* What messages hold: the content of a user's message, and the content and
\* embed description of a message of the bot.
UserBodies ==
  {[content |-> c, description |-> <<>>] :
     c \in {<<>>, <<Mention, CharRun(" ", 1)>> \o Hello,
            Repeat("x", 2000), Repeat("x", 2500)}}
BotBodies ==
  {[content |-> <<>>, description |-> Hello],
   [content |-> <<>>, description |-> <<>>]}

\* The ages of the messages fetched, at the time of the fetch.
Ages == {0, MAX_CHAIN_AGE_MS, MAX_CHAIN_AGE_MS + 1000}

\* The messages fetch(id) may return: of the bot, of a user who mentions the
\* bot, or of a user who does not; a reply to message id + 1 or to none; not
\* newer than the message that replies to it.
Fetched(id) ==
  UNION {
    {[id |-> id, fromBot |-> k = "bot", taggedBot |-> k = "tagged",
      createdTimestamp |-> DateNow - age, content |-> b.content,
      description |-> b.description,
      reference |-> IF parent THEN [messageId |-> id + 1] ELSE NoRef] :
       age \in Ages, parent \in BOOLEAN,
       b \in IF k = "bot" THEN BotBodies ELSE UserBodies} :
    k \in {"bot", "tagged", "plain"}}

CanFetch(msg) ==
  /\ msg.createdTimestamp >= 0
  /\ refMsg.id # 0 => msg.createdTimestamp <= refMsg.createdTimestamp

\* return { chain, hasContext: chain.length > 0 }
returnContext(list) ==
  /\ context' = [returned |-> TRUE, chain |-> list, hasContext |-> Len(list) > 0]
  /\ walk' = "done"

ContextInit ==
  /\ now = 2 * (MAX_CHAIN_AGE_MS \div 1000)
  /\ ticks = 0
  /\ changes = 0
  /\ faults = 0
  /\ keys = Origins
  /\ models = LedgerCatalog
  /\ usage_logs = <<>>
  /\ task_logs = <<>>
  /\ TaskInit
  /\ StoreIdle
  /\ ChatIdle

UnchangedByContext ==
  /\ UNCHANGED <<changes, faults, keys, models, usage_logs, task_logs>>
  /\ UNCHANGED taskVars
  /\ UNCHANGED storeVars
  /\ UNCHANGED sessionVars
  /\ UNCHANGED reminderVars

\* Date.now() moves on while a fetch is awaited.
ContextTick ==
  /\ walk = "fetch"
  /\ ticks < MaxTicks
  /\ now' = now + 1
  /\ ticks' = ticks + 1
  /\ UNCHANGED contextVars
  /\ UnchangedByContext

\* buildContext(message, botId) is called, up to the first fetch.
BuildContext ==
  /\ walk = "idle"
  /\ \E reference \in {NoRef, [messageId |-> 1]} :
       IF reference.messageId = 0
       THEN /\ returnContext(<<>>)
            /\ UNCHANGED <<chain, currentRef, depth, firstHop>>
       ELSE /\ chain' = <<>>
            /\ currentRef' = reference
            /\ depth' = 0
            /\ firstHop' = TRUE
            /\ walk' = "fetch"
            /\ UNCHANGED context
  /\ UNCHANGED <<refMsg, visited>>
  /\ UNCHANGED <<now, ticks>>
  /\ UnchangedByContext

\* messages.fetch rejects: the loop is left.
FetchFails ==
  /\ walk = "fetch"
  /\ returnContext(chain)
  /\ UNCHANGED <<chain, currentRef, depth, firstHop, refMsg, visited>>
  /\ UNCHANGED <<now, ticks>>
  /\ UnchangedByContext

\* The end of a pass of the loop that was not left: the loop condition.
nextPass(list, reference) ==
  /\ currentRef' = reference
  /\ firstHop' = FALSE
  /\ depth' = depth + 1
  /\ IF reference.messageId # 0 /\ depth + 1 < MAX_CHAIN_DEPTH
     THEN walk' = "fetch" /\ UNCHANGED context
     ELSE returnContext(list)

\* messages.fetch resolves: one pass of the loop, up to the next fetch or to
\* the return.
FetchReturns ==
  /\ walk = "fetch"
  /\ \E msg \in Fetched(currentRef.messageId) :
       /\ CanFetch(msg)
       /\ refMsg' = msg
       /\ LET content == extractContent(msg)
              role == IF msg.fromBot THEN "bot" ELSE "user"
              taken == IF content # <<>>
                       THEN unshift(chain, ContextEntry(role, content))
                       ELSE chain
          IN IF TooOld(msg)
             THEN /\ returnContext(chain)
                  /\ UNCHANGED <<chain, currentRef, depth, firstHop, visited>>
             ELSE IF msg.fromBot \/ msg.taggedBot
             THEN /\ chain' = taken
                  /\ visited' = IF content # <<>>
                                THEN Append(visited, ContextEntry(role, content))
                                ELSE visited
                  /\ nextPass(taken, msg.reference)
             ELSE IF firstHop
             THEN /\ chain' = taken
                  /\ visited' = IF content # <<>>
                                THEN Append(visited, ContextEntry(role, content))
                                ELSE visited
                  /\ returnContext(taken)
                  /\ UNCHANGED <<currentRef, depth, firstHop>>
             ELSE /\ returnContext(chain)
                  /\ UNCHANGED <<chain, currentRef, depth, firstHop, visited>>
  /\ UNCHANGED <<now, ticks>>
  /\ UnchangedByContext

ContextNext == ContextTick \/ BuildContext \/ FetchFails \/ FetchReturns

ContextSpec == ContextInit /\ [][ContextNext]_vars

(***************************************************************************)
(* Reminder scheduler.  setInterval calls deliverDueReminders every minute *)
(* and does not wait for the call before: the calls interleave at their    *)
(* awaits.  ToolDatabase runs a statement within the call on sqlite and    *)
(* awaits it on mysql.                                                     *)
(***************************************************************************)
POLL_INTERVAL_MS == 60000
FirstPollDelayMs == 30000

\* The clock advances of a scheduler run: half a polling interval.
ReminderSteps == {FirstPollDelayMs \div 1000}

\* The users that call the reminder tool (u1 creates reminders, either of
\* them asks for a delete), and the times given to it ("30s": seconds from
\* now).
ReminderUsers == {"u1", "u2"}
ReminderOwners == {"u1"}
ReminderTimes == {30}

\* The reminders stored before the scheduler starts: one due at once, one
\* due a minute later.
StoredReminders ==
  [r \in {1, 2} |->
     [user_id |-> "u1",
      remind_at |-> IF r = 1 THEN 0 ELSE POLL_INTERVAL_MS \div 1000,
      delivered |-> 0]]

\* ... ORDER BY remind_at ASC, rows of equal remind_at in id order.
RECURSIVE OrderByRemindAt(_)
OrderByRemindAt(S) ==
  IF S = {} THEN <<>>
  ELSE LET first == CHOOSE r \in S : \A o \in S :
                      \/ reminders[r].remind_at < reminders[o].remind_at
                      \/ /\ reminders[r].remind_at = reminders[o].remind_at
                         /\ r <= o
       IN <<first>> \o OrderByRemindAt(S \ {first})

\* SELECT ... FROM reminders WHERE remind_at <= ? AND delivered = 0
\* ORDER BY remind_at ASC
dueReminders(at) ==
  OrderByRemindAt({r \in DOMAIN reminders :
                     reminders[r].remind_at <= at /\ reminders[r].delivered = 0})

\* The loop goes on to the next reminder of its list, or ends.
nextReminder(q) ==
  IF q.i < Len(q.due) THEN [q EXCEPT !.i = @ + 1, !.pc = "fetch"]
  ELSE [q EXCEPT !.pc = "done"]

\* UPDATE reminders SET delivered = 1 WHERE id = ?
markDelivered(id) ==
  IF id \in DOMAIN reminders THEN [reminders EXCEPT ![id].delivered = 1]
  ELSE reminders

\* parseTime of a relative time such as "30s": that many seconds from now.
parseTime(seconds) == now + seconds

\* INSERT INTO reminders (channel_id, user_id, message, remind_at): the row
\* gets the next id and delivered = 0.
insertReminder(userId, remindAt) ==
  [r \in DOMAIN reminders \cup {lastReminderId + 1} |->
     IF r \in DOMAIN reminders THEN reminders[r]
     ELSE [user_id |-> userId, remind_at |-> remindAt, delivered |-> 0]]

\* DELETE FROM reminders WHERE id = ? AND user_id = ?
deleteReminder(id, userId) ==
  [r \in {o \in DOMAIN reminders : ~(o = id /\ reminders[o].user_id = userId)} |->
     reminders[r]]

ReminderInit ==
  /\ now = 0
  /\ ticks = 0
  /\ changes = 0
  /\ faults = 0
  /\ keys = Origins
  /\ models = LedgerCatalog
  /\ usage_logs = <<>>
  /\ task_logs = <<>>
  /\ TaskInit
  /\ driver \in Drivers
  /\ autoIncrement = LastId(models)
  /\ op = [p \in Procs |-> NoOp]
  /\ seeded = <<>>
  /\ usageCalls = <<>>
  /\ sessions = [c \in Channels |-> NoSession]
  /\ added = [c \in Channels |-> NoAdds]
  /\ formatted = [c \in Channels |-> NotCalled]
  /\ chain = <<>>
  /\ currentRef = NoRef
  /\ depth = 0
  /\ firstHop = TRUE
  /\ refMsg = NoMessage
  /\ walk = "idle"
  /\ context = NoContext
  /\ visited = <<>>
  /\ reminders = StoredReminders
  /\ lastReminderId = 2
  /\ tool = NoTool
  /\ toolCalls = 0
  /\ poll = [t \in Polls |-> NoPoll]
  /\ sent = [r \in Reminders |-> 0]

UnchangedByReminders ==
  /\ UNCHANGED <<changes, faults, keys, models, usage_logs, task_logs>>
  /\ UNCHANGED taskVars
  /\ UNCHANGED storeVars
  /\ UNCHANGED sessionVars
  /\ UNCHANGED contextVars

ReminderTick ==
  /\ ticks < MaxTicks
  /\ \E d \in ReminderSteps : now' = now + d
  /\ ticks' = ticks + 1
  /\ UNCHANGED reminderVars
  /\ UnchangedByReminders

\* The call has the rows of its query: the loop starts on the first, or
\* there is none.
startLoop(q, due) ==
  [q EXCEPT !.pc = IF due = <<>> THEN "done" ELSE "fetch", !.due = due, !.i = 1]

\* The timer fires: the first call 30 s after the start, each later one a
\* polling interval after the call before.  The call returns at once when
\* the client is not there; else it takes the time and runs its query,
\* which ToolDatabase runs within the call on sqlite (it may throw) and
\* awaits on mysql.
PollStart(t) ==
  /\ poll[t].pc = "idle"
  /\ IF t = 1 THEN DateNow >= FirstPollDelayMs
     ELSE /\ poll[t - 1].pc # "idle"
          /\ DateNow >= poll[t - 1].startedAt * 1000 + POLL_INTERVAL_MS
  /\ \E outcome \in {"no client", "throws", "rows"} :
       LET q == [NoPoll EXCEPT !.startedAt = now, !.pc = "done"] IN
       poll' = [poll EXCEPT ![t] =
                  IF outcome = "no client" THEN q
                  ELSE IF driver = "mysql" THEN [q EXCEPT !.pc = "query"]
                  ELSE IF outcome = "throws" THEN q
                  ELSE startLoop(q, dueReminders(now))]
  /\ UNCHANGED <<now, ticks, reminders, lastReminderId, tool, toolCalls, sent>>
  /\ UnchangedByReminders

\* The awaited query returns (mysql): the rows due at the time the call
\* took, as the table is when the query runs.
QueryReturns(t) ==
  /\ poll[t].pc = "query"
  /\ poll' = [poll EXCEPT ![t] = startLoop(@, dueReminders(poll[t].startedAt))]
  /\ UNCHANGED <<now, ticks, reminders, lastReminderId, tool, toolCalls, sent>>
  /\ UnchangedByReminders

\* The awaited query is rejected (mysql): the call returns.
QueryThrows(t) ==
  /\ poll[t].pc = "query"
  /\ poll' = [poll EXCEPT ![t].pc = "done"]
  /\ UNCHANGED <<now, ticks, reminders, lastReminderId, tool, toolCalls, sent>>
  /\ UnchangedByReminders

\* client.channels.fetch returns a text channel.
FetchChannel(t) ==
  /\ poll[t].pc = "fetch"
  /\ poll' = [poll EXCEPT ![t].pc = "send"]
  /\ UNCHANGED <<now, ticks, reminders, lastReminderId, tool, toolCalls, sent>>
  /\ UnchangedByReminders

\* client.channels.fetch throws, or the channel is not text based.
NoChannel(t) ==
  /\ poll[t].pc = "fetch"
  /\ poll' = [poll EXCEPT ![t] = nextReminder(@)]
  /\ UNCHANGED <<now, ticks, reminders, lastReminderId, tool, toolCalls, sent>>
  /\ UnchangedByReminders

\* channel.send returns: the UPDATE is run, within this step on sqlite,
\* where it is applied or throws (the catch branch logs the error).
SendReturns(t) ==
  /\ poll[t].pc = "send"
  /\ sent' = [sent EXCEPT ![poll[t].due[poll[t].i]] = Bump(@)]
  /\ IF driver = "sqlite"
     THEN /\ \E applied \in BOOLEAN :
               reminders' = IF applied THEN markDelivered(poll[t].due[poll[t].i])
                            ELSE reminders
          /\ poll' = [poll EXCEPT ![t] = nextReminder(@)]
     ELSE /\ poll' = [poll EXCEPT ![t].pc = "update"]
          /\ UNCHANGED reminders
  /\ UNCHANGED <<now, ticks, lastReminderId, tool, toolCalls>>
  /\ UnchangedByReminders

\* channel.send throws: the reminder keeps delivered = 0.
SendThrows(t) ==
  /\ poll[t].pc = "send"
  /\ poll' = [poll EXCEPT ![t] = nextReminder(@)]
  /\ UNCHANGED <<now, ticks, reminders, lastReminderId, tool, toolCalls, sent>>
  /\ UnchangedByReminders

\* The UPDATE returns (mysql).
UpdateReturns(t) ==
  /\ poll[t].pc = "update"
  /\ reminders' = markDelivered(poll[t].due[poll[t].i])
  /\ poll' = [poll EXCEPT ![t] = nextReminder(@)]
  /\ UNCHANGED <<now, ticks, lastReminderId, tool, toolCalls, sent>>
  /\ UnchangedByReminders

\* The UPDATE is rejected (mysql): the catch branch logs the error.
UpdateThrows(t) ==
  /\ poll[t].pc = "update"
  /\ poll' = [poll EXCEPT ![t] = nextReminder(@)]
  /\ UNCHANGED <<now, ticks, reminders, lastReminderId, tool, toolCalls, sent>>
  /\ UnchangedByReminders

\* ReminderTool.execute({action: "create", ...}): the time is parsed and the
\* INSERT run, within the call on sqlite (applied, or it throws), awaited on
\* mysql.
ToolCreate ==
  /\ tool.pc = "none"
  /\ toolCalls < MaxToolCalls
  /\ \E userId \in ReminderOwners, time \in ReminderTimes :
       IF driver = "sqlite"
       THEN /\ \E applied \in BOOLEAN :
                 IF applied
                 THEN /\ reminders' = insertReminder(userId, parseTime(time))
                      /\ lastReminderId' = lastReminderId + 1
                 ELSE UNCHANGED <<reminders, lastReminderId>>
            /\ UNCHANGED tool
       ELSE /\ tool' = [pc |-> "insert", userId |-> userId, remindAt |-> parseTime(time)]
            /\ UNCHANGED <<reminders, lastReminderId>>
  /\ toolCalls' = toolCalls + 1
  /\ UNCHANGED <<now, ticks, poll, sent>>
  /\ UnchangedByReminders

\* The awaited INSERT is applied (mysql) and execute returns.
ToolInsertReturns ==
  /\ tool.pc = "insert"
  /\ reminders' = insertReminder(tool.userId, tool.remindAt)
  /\ lastReminderId' = lastReminderId + 1
  /\ tool' = NoTool
  /\ UNCHANGED <<now, ticks, toolCalls, poll, sent>>
  /\ UnchangedByReminders

\* ReminderTool.execute({action: "delete", id, ...}): the DELETE is run,
\* within the call on sqlite (applied, or it throws), awaited on mysql.
ToolDelete ==
  /\ tool.pc = "none"
  /\ toolCalls < MaxToolCalls
  /\ \E id \in Reminders, userId \in ReminderUsers :
       IF driver = "sqlite"
       THEN /\ \E applied \in BOOLEAN :
                 reminders' = IF applied THEN deleteReminder(id, userId)
                              ELSE reminders
            /\ UNCHANGED tool
       ELSE /\ tool' = [pc |-> "delete", userId |-> userId, id |-> id]
            /\ UNCHANGED reminders
  /\ toolCalls' = toolCalls + 1
  /\ UNCHANGED <<now, ticks, lastReminderId, poll, sent>>
  /\ UnchangedByReminders

\* The awaited DELETE is applied (mysql) and execute returns.
ToolDeleteReturns ==
  /\ tool.pc = "delete"
  /\ reminders' = deleteReminder(tool.id, tool.userId)
  /\ tool' = NoTool
  /\ UNCHANGED <<now, ticks, lastReminderId, toolCalls, poll, sent>>
  /\ UnchangedByReminders

\* The awaited statement of execute is rejected (mysql): execute throws.
ToolThrows ==
  /\ tool.pc # "none"
  /\ tool' = NoTool
  /\ UNCHANGED <<now, ticks, reminders, lastReminderId, toolCalls, poll, sent>>
  /\ UnchangedByReminders

PollStep(t) ==
  \/ PollStart(t) \/ QueryReturns(t) \/ QueryThrows(t) \/ FetchChannel(t) \/ NoChannel(t) \/ SendReturns(t)
  \/ SendThrows(t) \/ UpdateReturns(t) \/ UpdateThrows(t)

ToolStep ==
  \/ ToolCreate \/ ToolInsertReturns \/ ToolDelete \/ ToolDeleteReturns
  \/ ToolThrows

ReminderNext == ReminderTick \/ ToolStep \/ \E t \in Polls : PollStep(t)

ReminderSpec == ReminderInit /\ [][ReminderNext]_vars

(***************************************************************************)
(* Overlapping tasks.  executeTask is called twice before either call has  *)
(* ended: the continuations of the two calls interleave at their awaits,   *)
(* and the clock moves on.  The ledger writes of these runs do not throw.   *)
(***************************************************************************)
\* The usage earlier tasks left: one request of A, which leaves one request
\* of its requests-per-minute quota.
OverlapUsage ==
  <<[model |-> "A", requests |-> 1, tokens |-> 100, timestamp |-> 0]>>

\* A (google) and D (groq) are the enabled models.
OverlapDisabled == {"B", "C"}

OverlapInit ==
  /\ now = 0
  /\ ticks = 0
  /\ changes = 0
  /\ faults = MaxFaults   \* no write of the run throws
  /\ keys = {"google"}
  /\ models = [m \in Names |->
                 [RouterCatalog[m] EXCEPT !.enabled = m \notin OverlapDisabled]]
  /\ task_logs = <<>>
  /\ usage_logs = OverlapUsage
  /\ TaskInit
  /\ StoreIdle
  /\ ChatIdle

Overlap == \E p \in Procs : AppliedStep(p)

\* The clock advances of the overlap: up to the edge of the minute window
\* and past it.
MaxWaits == 1
WaitSteps == {MinuteWindow, MinuteWindow + 1}

\* Date.now() moves on while the calls are in progress or after them.
Wait ==
  /\ ticks < MaxWaits
  /\ \E d \in WaitSteps : now' = now + d
  /\ ticks' = ticks + 1
  /\ UNCHANGED <<changes, faults, keys, models, usage_logs, task_logs>>
  /\ UNCHANGED taskVars
  /\ UNCHANGED chatVars
  /\ UNCHANGED storeVars

OverlapNext == Overlap \/ Wait

OverlapSpec == OverlapInit /\ [][OverlapNext]_vars

(***************************************************************************)
(* Tasks one after the other.  executeTask is called again only when the   *)
(* call before has returned; nobody changes the catalog, the clock moves   *)
(* on.  The ledger writes of these runs do not throw.                      *)
(***************************************************************************)
\* The usage earlier tasks left for A: one request two hours ago, two an
\* hour ago and one now, which leaves one request of its minute quota and
\* one of its day quota.
SerialUsage ==
  <<[model |-> "A", requests |-> 1, tokens |-> 100, timestamp |-> 0 - 7200],
    [model |-> "A", requests |-> 2, tokens |-> 200, timestamp |-> 0 - 3600],
    [model |-> "A", requests |-> 1, tokens |-> 100, timestamp |-> 0]>>

SerialInit ==
  /\ now = 0
  /\ ticks = 0
  /\ changes = 0
  /\ faults = MaxFaults   \* no write of the run throws
  /\ keys = {"google"}
  /\ models = RouterCatalog
  /\ task_logs = <<>>
  /\ usage_logs = SerialUsage
  /\ TaskInit
  /\ StoreIdle
  /\ ChatIdle

\* No other call is in progress.
Alone(p) == \A q \in Procs \ {p} : pc[q] \in {"idle", "done"}

\* A call starts when it is alone and then runs to its end.
SerialStep(p) ==
  \/ Alone(p) /\ StartTask(p)
  \/ ReadFailureRates(p) \/ NoCandidate(p) \/ AskOracle(p) \/ OracleFails(p)
  \/ OracleAnswers(p) \/ CallProvider(p) \/ ProviderThrows(p)
  \/ ProviderReturns(p) \/ RecordSuccess(p) \/ RetryWithFallback(p)
  \/ SkipFallback(p) \/ TryFallback(p)

Serial == \E p \in Procs : SerialStep(p)

SerialNext == Serial \/ Wait

SerialSpec == SerialInit /\ [][SerialNext]_vars

(***************************************************************************)
(* Properties of the task router.                                          *)
(***************************************************************************)
\* The models executeWithModel was invoked on by the call of p.
Attempted(p) == {m \in Names : hist[p].attempts[m] > 0}

\* The OutcomeEvents the call of p recorded (its taskType is p).
OutcomesOf(p) == SelectSeq(task_logs, LAMBDA r : r.task_type = p)

NoSuccessYet(p) == \A m \in Names : hist[p].succeeded[m] = 0

Min(a, b) == IF a <= b THEN a ELSE b

\* C1: in one executeTask call executeWithModel is invoked on at most 3
\* distinct models, whatever fails and whatever else changes the ledger.
C1_AtMostThreeModels ==
  \A p \in Callers : Cardinality(Attempted(p)) <= MaxRetryModels

\* The invocations of executeWithModel by the call of p (those of one model
\* are counted up to two).
Invocations(p) ==
  LET RECURSIVE Sum(_)
      Sum(S) == IF S = {} THEN 0
                ELSE LET m == CHOOSE x \in S : TRUE
                     IN hist[p].attempts[m] + Sum(S \ {m})
  IN Sum(Names)

\* C2: every executeTask call that was started returns a Result, also when
\* every provider call keeps failing: the recursion executeWithModel ->
\* retryWithFallback -> executeWithModel ends after at most MaxRetryModels
\* invocations of executeWithModel.  (Every failed invocation adds a row to
\* task_logs, so a call that never returns has no cycle of states; it is
\* seen as a call that goes past the number of invocations the recursion
\* is meant to end after.)
C2_EndsWithinMaxRetries ==
  \A p \in Callers : Invocations(p) <= MaxRetryModels

\* C3: within one call the exclude set only grows, no model is attempted a
\* second time and at most one failed OutcomeEvent per model is recorded.
C3_ExcludeSetCarried ==
  \A p \in Callers :
    /\ hist[p].grown
    /\ \A m \in Names : hist[p].attempts[m] <= 1 /\ hist[p].failed[m] <= 1

\* C4: when every attempt of a call fails (and nobody else changes the
\* catalog meanwhile) each model is attempted once only, and the call ends
\* with success = false, modelUsed = the last model attempted, after
\* min(3, number of eligible candidates) distinct models.
C4_AllFailExhausts ==
  \A p \in Callers :
    (changes = 0 /\ NoSuccessYet(p)) =>
      /\ \A m \in Names : hist[p].attempts[m] <= 1
      /\ (pc[p] = "done" /\ hist[p].chosen # "none") =>
           /\ ~result[p].success
           /\ result[p].modelUsed = hist[p].last
           /\ Cardinality(Attempted(p)) = Min(MaxRetryModels, hist[p].eligible)

C6_NeverThrows ==
  \A p \in Callers :
    pc[p] = "done" =>
      /\ result[p].kind = "returned"
      /\ ~result[p].success => result[p].error
      /\ hist[p].chosen = "none" =>
           /\ ~result[p].success
           /\ result[p].modelUsed = "none"
           /\ OutcomesOf(p) = <<>>
           /\ usage_logs \in EarlierUsage

\* A call ended on a selection failure: a returned Result with modelUsed
\* 'none'.
C6_Witness ==
  \E p \in Callers :
    /\ pc[p] = "done" /\ result[p].kind = "returned" /\ ~result[p].success
    /\ hist[p].chosen = "none" /\ result[p].modelUsed = "none"

\* C7: a model tried by retryWithFallback had, when the fallback list was
\* read, a failure rate not above the threshold of the selection.
C7_FallbackUnderThreshold ==
  \A p \in Callers :
    hist[p].fallback => cur[p] \notin hist[p].overThreshold

(***************************************************************************)
(* Properties of the candidate selector and of one attempt.                *)
(***************************************************************************)
\* The model names of a list of candidate rows, in order.
CandidateNames(rows) == [i \in 1..Len(rows) |-> rows[i].name]

\* C12: the candidate set is listAvailable(floor) without the models whose
\* origin has no provider and without those whose failure rate is above the
\* threshold, in the same (ascending rank) order.
C12_CandidatesFromListAvailable ==
  CandidateNames(getAvailableModelsWithStats(getModelStats)) =
    SelectSeq(getAllAvailableModels(DefaultMinTokens),
              LAMBDA m : /\ HasAdapter(models[m].origin)
                         /\ ~FailureRateExceeds(m, FailureRateThreshold))

\* C13: a call whose candidate set was empty has not consulted the oracle,
\* has got no model from the selection, has attempted no model, and ends as
\* a failure.
C13_EmptyCandidatesFail ==
  \A p \in Callers :
    (pc[p] \notin {"idle", "stats", "select"} /\ availableModels[p] = <<>>) =>
      /\ oracle[p].kind = "none"
      /\ hist[p].chosen = "none"
      /\ Attempted(p) = {}
      /\ pc[p] = "done" /\ ~result[p].success

\* C14: when the oracle has answered, the decision is the oracle's answer
\* only if the model it names is a candidate and is in
\* listAvailable(estimatedTokens + buffer) at that time; otherwise the
\* decision is the deterministic fallback's.  With A at its
\* requests-per-minute ceiling, B an unused candidate and the oracle naming
\* A, the decision names B.
C14_AnswerValidated ==
  [][\A p \in Callers :
       (pc[p] = "consult" /\ oracle'[p].kind = "answer") =>
         LET answer == oracle'[p]
             names == Range(CandidateNames(availableModels[p]))
             valid == /\ answer.selectedModel \in names
                      /\ models[answer.selectedModel].enabled
                      /\ HasCapacity(answer.selectedModel,
                                     answer.estimatedTokens + MinTokenBuffer)
         IN /\ analysis'[p].estimatedTokens = answer.estimatedTokens
            /\ analysis'[p].reasoning = "oracle" <=> valid
            /\ valid => analysis'[p].selectedModel = answer.selectedModel
            /\ ~valid => /\ analysis'[p].reasoning = "Fallback"
                         /\ analysis'[p].selectedModel \in names
            /\ ( /\ answer.selectedModel = "A"
                 /\ models["A"].rpm_allowed - getModelUsage("A").rpmUsed < 1
                 /\ "B" \in names
                 /\ getModelUsage("B").tpmUsed = 0 )
               => analysis'[p].selectedModel = "B"
    ]_vars

\* A (rank 1) was at its requests-per-minute ceiling, the oracle named A,
\* and the call went on with B.
C14_Witness ==
  \E p \in Callers :
    /\ oracle[p].kind = "answer" /\ oracle[p].selectedModel = "A"
    /\ models["A"].rpm_allowed - getModelUsage("A").rpmUsed < 1
    /\ "B" \in Range(CandidateNames(availableModels[p]))
    /\ hist[p].chosen = "B" /\ pc[p] = "exec"
    /\ analysis[p].reasoning = "Fallback"

\* C15: when consultMainAgent has thrown, the selection still returns a
\* model, and that model is one of the candidates.
C15_OracleFailureFallsBack ==
  \A p \in Callers :
    oracle[p].kind = "throws" =>
      /\ hist[p].chosen # "none"
      /\ hist[p].chosen \in Range(CandidateNames(availableModels[p]))

\* C16: a model whose origin has no API key is never the model the
\* selection returns and no OutcomeEvent of the call names it.
C16_NoCredentialsNoAttempt ==
  \A p \in Callers :
    /\ hist[p].chosen # "none" => HasAdapter(models[hist[p].chosen].origin)
    /\ \A i \in 1..Len(OutcomesOf(p)) :
         HasAdapter(models[OutcomesOf(p)[i].model].origin)

\* Math.ceil(x / 4) as the least n with 4 * n >= x.
CeilingOfQuarter(x) == CHOOSE n \in 0..x : 4 * n >= x /\ 4 * (n - 1) < x

\* C17: a call that ended with success has recorded one UsageEvent, for the
\* executed model, with requests = 1 and tokens = the count the provider
\* reported or, without one, ceil((prompt length + text length) / 4), and
\* one successful OutcomeEvent, for the executed model with the same count.
C17_SuccessRecordsOneOfEach ==
  \A p \in Callers :
    (pc[p] = "done" /\ result[p].success) =>
      LET m == result[p].modelUsed
          response == hist[p].response
          tokens == IF response.tokensUsed > 0 THEN response.tokensUsed
                    ELSE CeilingOfQuarter(promptLen[p] + response.textLen)
          done == SelectSeq(OutcomesOf(p), LAMBDA r : r.success)
      IN /\ result[p].tokensUsed = tokens
         /\ \A o \in Names : hist[p].usage[o] = (IF o = m THEN 1 ELSE 0)
         /\ \A o \in Names : hist[p].succeeded[o] = (IF o = m THEN 1 ELSE 0)
         /\ usage_logs # <<>>
         /\ SubSeq(usage_logs, 1, Len(usage_logs) - 1) \in EarlierUsage
         /\ usage_logs[Len(usage_logs)] =
              [model |-> m, requests |-> 1, tokens |-> tokens, timestamp |-> now]
         /\ Len(done) = 1
         /\ done[1] = [model |-> m, task_type |-> p, success |-> TRUE,
                       error_message |-> NoErrorMessage,
                       tokens_used |-> tokens, timestamp |-> now]
         /\ models[m].successful_tasks = 1

\* A provider call of p fails in this step: the adapter is missing or
\* generateContent throws.
FailedCall(p) ==
  \/ pc[p] = "exec" /\ pc'[p] \notin {"exec", "call"}
  \/ pc[p] = "call" /\ pc'[p] \notin {"call", "outcome", "catch"}

\* C18: the step in which a provider call fails appends one OutcomeEvent
\* with success = false and the error message for the attempted model, and
\* leaves usage_logs, hence the windowed usage of every model, as it was.
C18_FailureRecordsNoUsage ==
  [][\A p \in Callers :
       FailedCall(p) =>
         /\ usage_logs' = usage_logs
         /\ task_logs' = Append(task_logs,
              [model |-> cur[p], task_type |-> p, success |-> FALSE,
               error_message |-> IF pc[p] = "call" THEN ProviderError
                                 ELSE NoAdapterError,
               tokens_used |-> 0, timestamp |-> now])
    ]_vars


(***************************************************************************)
(* Properties of the ledger.                                               *)
(***************************************************************************)
\* The UsageEvents of a model whose timestamp lies in the trailing window,
\* as positions of the log, and the sum of a column over such positions.
EventsInWindow(model, window) ==
  {i \in 1..Len(usage_logs) :
     usage_logs[i].model = model /\ now - usage_logs[i].timestamp <= window}

RECURSIVE RequestsOver(_)
RequestsOver(I) ==
  IF I = {} THEN 0
  ELSE LET i == CHOOSE j \in I : TRUE
       IN usage_logs[i].requests + RequestsOver(I \ {i})

RECURSIVE TokensOver(_)
TokensOver(I) ==
  IF I = {} THEN 0
  ELSE LET i == CHOOSE j \in I : TRUE
       IN usage_logs[i].tokens + TokensOver(I \ {i})

\* C8: at every instant getUsage(model) is the sum of requests and tokens
\* over the model's stored UsageEvents with timestamp >= now - 60 (minute
\* sums) and >= now - 86400 (day sums), boundary events included; nothing
\* but the stored events and the clock decides it.
C8_UsageIsWindowSum ==
  \A m \in DOMAIN models :
    getModelUsage(m) =
      [rpmUsed |-> RequestsOver(EventsInWindow(m, MinuteWindow)),
       tpmUsed |-> TokensOver(EventsInWindow(m, MinuteWindow)),
       rpdUsed |-> RequestsOver(EventsInWindow(m, DayWindow)),
       tpdUsed |-> TokensOver(EventsInWindow(m, DayWindow))]

\* An event lies exactly on the minute boundary and is counted, while an
\* older event of the same model is counted in the day sums only.
C8_Witness ==
  \E m \in DOMAIN models :
    \E i, j \in 1..Len(usage_logs) :
      /\ usage_logs[i].model = m /\ usage_logs[j].model = m
      /\ usage_logs[j].timestamp = now - MinuteWindow
      /\ usage_logs[i].timestamp < now - MinuteWindow
      /\ getModelUsage(m).rpmUsed = usage_logs[j].requests
      /\ getModelUsage(m).rpdUsed = usage_logs[i].requests + usage_logs[j].requests

\* The rows of the log that belong to one model.
RowsOf(model) == SelectSeq(usage_logs, LAMBDA r : r.model = model)

AllRows(rows, P(_)) == \A i \in 1..Len(rows) : P(rows[i])

\* C9: after N recordUsage(r, t) calls for a model within the last 60 s the
\* minute sums are N*r and N*t; once more than 60 s have passed since the
\* last of them (and less than a day) the minute sums are 0 and the day
\* sums are still N*r and N*t.
C9_MinuteWindowExpires ==
  \A m \in DOMAIN models : \A in \in UsageInputs :
    LET rows == RowsOf(m)
        N == Len(rows)
        u == getModelUsage(m)
    IN (N > 0 /\ AllRows(rows, LAMBDA r : r.requests = in[1] /\ r.tokens = in[2]))
       =>
       /\ AllRows(rows, LAMBDA r : now - r.timestamp <= MinuteWindow)
            => (u.rpmUsed = N * in[1] /\ u.tpmUsed = N * in[2])
       /\ AllRows(rows, LAMBDA r : now - r.timestamp > MinuteWindow
                                   /\ now - r.timestamp <= DayWindow)
            => /\ u.rpmUsed = 0 /\ u.tpmUsed = 0
               /\ u.rpdUsed = N * in[1] /\ u.tpdUsed = N * in[2]

\* Two equal recordUsage calls lie more than a minute back: the minute sums
\* are 0 again and the day sums hold both.
C9_Witness ==
  \E m \in DOMAIN models : \E in \in UsageInputs :
    LET rows == RowsOf(m) IN
    /\ Len(rows) = 2
    /\ AllRows(rows, LAMBDA r : r.requests = in[1] /\ r.tokens = in[2])
    /\ AllRows(rows, LAMBDA r : now - r.timestamp > MinuteWindow
                                /\ now - r.timestamp <= DayWindow)
    /\ getModelUsage(m).rpmUsed = 0
    /\ getModelUsage(m).rpdUsed = 2 * in[1]

\* The values listAvailable is called with: the default floor and an
\* estimate plus the token buffer.
MinTokenInputs == {DefaultMinTokens, DefaultMinTokens + MinTokenBuffer}

\* Remaining capacity on the four quotas, from the events in the windows.
WithinQuotas(m, minTokens) ==
  /\ models[m].rpm_allowed - RequestsOver(EventsInWindow(m, MinuteWindow)) >= 1
  /\ models[m].rpd_total - RequestsOver(EventsInWindow(m, DayWindow)) >= 1
  /\ models[m].tpm_total - TokensOver(EventsInWindow(m, MinuteWindow)) >= minTokens
  /\ models[m].tpd_total - TokensOver(EventsInWindow(m, DayWindow)) >= minTokens

\* C10: listAvailable(minTokens) holds exactly the enabled models with
\* capacity on all four quotas, each once, in ascending rank order.
C10_ListAvailableExact ==
  \A minTokens \in MinTokenInputs :
    LET list == getAllAvailableModels(minTokens) IN
    /\ Range(list) = {m \in DOMAIN models :
                        models[m].enabled /\ WithinQuotas(m, minTokens)}
    /\ \A i, j \in 1..Len(list) :
         i < j => /\ list[i] # list[j]
                  /\ models[list[i]].rank <= models[list[j]].rank

\* An enabled model lacks capacity on the tokens-per-day quota alone and is
\* left out, while the list still holds another model.
C10_Witness ==
  \E m \in DOMAIN models :
    LET u == getModelUsage(m)
        list == getAllAvailableModels(DefaultMinTokens)
    IN /\ models[m].enabled
       /\ models[m].rpm_allowed - u.rpmUsed >= 1
       /\ models[m].rpd_total - u.rpdUsed >= 1
       /\ models[m].tpm_total - u.tpmUsed >= DefaultMinTokens
       /\ models[m].tpd_total - u.tpdUsed < DefaultMinTokens
       /\ m \notin Range(list)
       /\ Len(list) >= 1

(***************************************************************************)
(* Properties of the storage drivers.                                      *)
(***************************************************************************)
\* The number of stored OutcomeEvents of a model with the given success.
StoredOutcomes(model, success) ==
  Len(SelectSeq(task_logs, LAMBDA r : r.model = model /\ r.success = success))

\* C11: in every state a reader can see, each model's successful_tasks and
\* failed_tasks count exactly its stored successful and failed
\* OutcomeEvents (nothing is pruned in these runs): none is stored without
\* its increment, and no call ends leaving such a state.
C11_OutcomeAtomic ==
  \A m \in DOMAIN models :
    /\ models[m].successful_tasks = StoredOutcomes(m, TRUE)
    /\ models[m].failed_tasks = StoredOutcomes(m, FALSE)

\* The columns of models that seedModels writes, and the two counters.
ConfigOf(r) ==
  [origin |-> r.origin, rank |-> r.rank, description |-> r.description,
   enabled |-> r.enabled, rpm_allowed |-> r.rpm_allowed,
   tpm_total |-> r.tpm_total, rpd_total |-> r.rpd_total,
   tpd_total |-> r.tpd_total]

CountersOf(r) == <<r.successful_tasks, r.failed_tasks>>

\* A step of a seedModels call.
SeedStep ==
  \/ seeded' # seeded
  \/ \E p \in Procs : op'[p] # op[p] /\ (op[p].kind = "seed" \/ op'[p].kind = "seed")

\* Applying the catalog to the table twice gives what applying it once
\* gives, and applying it keeps the counters of the rows there are.
Idempotent(tbl, rows) ==
  LET once == seedModels(tbl, rows, LastId(tbl))
      twice == seedModels(once, rows, seedModelsLastId(rows, LastId(tbl)))
  IN /\ DOMAIN twice = DOMAIN once
     /\ \A m \in DOMAIN once : ConfigOf(twice[m]) = ConfigOf(once[m])
     /\ \A m \in DOMAIN tbl : CountersOf(once[m]) = CountersOf(tbl[m])

\* C19: from every table the ledger reaches, seeding a catalog twice gives
\* the configuration seeding it once gives; and a step of seedModels
\* changes no UsageEvent, no OutcomeEvent and no counter (a sqlite seed is
\* one such step, and gives seedModels of the table before).
C19_SeedIdempotent ==
  [][/\ \A c \in DOMAIN Catalogs :
          Idempotent(models, Catalogs[c]) /\ Idempotent(models', Catalogs[c])
     /\ SeedStep =>
          /\ usage_logs' = usage_logs
          /\ task_logs' = task_logs
          /\ \A m \in DOMAIN models : CountersOf(models'[m]) = CountersOf(models[m])
          /\ (driver = "sqlite") =>
               models' = seedModels(models, Catalogs[seeded'[Len(seeded')].catalog],
                                    autoIncrement)
    ]_vars

\* The same catalog was applied twice over a table with a counted outcome,
\* and the table is what one application gave.
C19_Witness ==
  /\ Len(seeded) = 2
  /\ seeded[1].catalog = seeded[2].catalog
  /\ seeded[1].status = "done" /\ seeded[2].status = "done"
  /\ task_logs # <<>>
  /\ \E m \in DOMAIN models : CountersOf(models[m]) # <<0, 0>>
  /\ \A m \in DOMAIN models :
       ConfigOf(models[m]) =
         ConfigOf(seedModels(seeded[2].before, Catalogs[seeded[1].catalog],
                             LastId(seeded[2].before))[m])
  /\ \E m \in DOMAIN models : m \notin DOMAIN LedgerCatalog

\* The configuration of a model in a table (a model may not be there).
RowConfig(tbl, m) ==
  IF m \in DOMAIN tbl THEN <<TRUE, ConfigOf(tbl[m])>> ELSE <<FALSE>>

\* The models a catalog writes.
CatalogNames(rows) == {rows[i].name : i \in {j \in 1..Len(rows) : HasLimits(rows[j])}}

\* On the models of the catalog, the table is the table tbl.
SameOn(rows, tbl) ==
  \A m \in CatalogNames(rows) : RowConfig(models, m) = RowConfig(tbl, m)

\* C20: while one seedModels call is the only change to the catalog, a
\* reader sees on the catalog's models either the rows from before the call
\* or the rows the whole catalog gives; and after a call that failed
\* part-way the rows are those from before the call.
C20_SeedAtomic ==
  (changes = 0 /\ SeedsBegun = 1) =>
    /\ \A p \in Procs :
         op[p].kind = "seed" =>
           \/ SameOn(Catalogs[op[p].catalog], op[p].before)
           \/ SameOn(Catalogs[op[p].catalog],
                     seedModels(op[p].before, Catalogs[op[p].catalog],
                                LastId(op[p].before)))
    /\ (seeded # <<>> /\ seeded[1].status = "failed") =>
         SameOn(Catalogs[seeded[1].catalog], seeded[1].before)

\* The calls of usageCalls, or the rows of usage_logs, with these values.
CallsLike(calls, c) ==
  {i \in 1..Len(calls) :
     /\ calls[i].model = c.model
     /\ calls[i].requests = c.requests
     /\ calls[i].tokens = c.tokens}

RECURSIVE SumOver(_, _, _)
SumOver(calls, model, field) ==
  IF calls = <<>> THEN 0
  ELSE (IF Head(calls).model = model THEN Head(calls)[field] ELSE 0)
         + SumOver(Tail(calls), model, field)

\* C21: after k recordUsage calls have ended, however they overlapped, the
\* log holds k events, one with the values of each call, and getUsage is the
\* sum of the k request and token deltas.
C21_UsageNeverLost ==
  /\ Len(usage_logs) = Len(usageCalls)
  /\ \A i \in 1..Len(usageCalls) :
       Cardinality(CallsLike(usage_logs, usageCalls[i]))
         = Cardinality(CallsLike(usageCalls, usageCalls[i]))
  /\ \A m \in DOMAIN LedgerCatalog :
       /\ getModelUsage(m).rpdUsed = SumOver(usageCalls, m, "requests")
       /\ getModelUsage(m).tpdUsed = SumOver(usageCalls, m, "tokens")
       /\ getModelUsage(m).rpmUsed = SumOver(usageCalls, m, "requests")
       /\ getModelUsage(m).tpmUsed = SumOver(usageCalls, m, "tokens")

\* Three calls for the same model have ended; the one that ended last began
\* before either of the others ended.
C21_Witness ==
  /\ Len(usageCalls) = 3
  /\ usageCalls[3].after = 0
  /\ \A i \in 1..3 : usageCalls[i].model = usageCalls[1].model
  /\ Len(usage_logs) = 3

(***************************************************************************)
(* Properties of the failure rate and of the retention.                    *)
(***************************************************************************)
\* The OutcomeEvents of the model in the window, and the failures among them.
OutcomesInWindow(model, window) ==
  {i \in 1..Len(task_logs) :
     task_logs[i].model = model /\ task_logs[i].timestamp >= now - window}

FailuresInWindow(model, window) ==
  {i \in OutcomesInWindow(model, window) : ~task_logs[i].success}

\* C23: getFailureRate(model, window) is 100 * failures / events over the
\* model's events of the window: 0 when there is none, 100 when all failed,
\* and always between 0 and 100.
C23_FailureRateIsShare ==
  \A m \in DOMAIN models, w \in WindowInputs :
    LET rate == getModelFailureRate(m, w)
        all == Cardinality(OutcomesInWindow(m, w))
        failed == Cardinality(FailuresInWindow(m, w))
    IN /\ rate.den > 0
       /\ all = 0 => rate.num = 0
       /\ all > 0 => rate.num * all = 100 * failed * rate.den
       /\ (all > 0 /\ failed = all) => rate.num = 100 * rate.den
       /\ 0 <= rate.num /\ rate.num <= 100 * rate.den

\* A has a failure that left the day window and, inside it, a success and a
\* failure: its rate is 50.
C23_Witness ==
  /\ Cardinality(OutcomesInWindow("A", FailureRateWindow)) = 2
  /\ Cardinality(FailuresInWindow("A", FailureRateWindow)) = 1
  /\ \E i \in 1..Len(task_logs) :
       /\ task_logs[i].model = "A" /\ ~task_logs[i].success
       /\ task_logs[i].timestamp < now - FailureRateWindow
  /\ getModelFailureRate("A", FailureRateWindow).num
       = 50 * getModelFailureRate("A", FailureRateWindow).den

\* The rows at most this old, in their order.
NotOlderThan(rows, seconds) ==
  SelectSeq(rows, LAMBDA r : now - r.timestamp <= seconds)

\* C24: pruning deletes exactly the UsageEvents older than 24 hours and the
\* OutcomeEvents older than 7 days and leaves the newer ones; getUsage and
\* listAvailable give the same before and after it.
C24_PruneKeepsWindows ==
  [][\A p \in Callers :
       /\ (op[p].kind # "cleanup" /\ op'[p].kind = "cleanup") =>
            /\ usage_logs' = NotOlderThan(usage_logs, 24 * 3600)
            /\ task_logs' = task_logs
       /\ (op[p].kind = "cleanup" /\ op'[p].kind = "cleaned") =>
            /\ task_logs' = NotOlderThan(task_logs, 7 * 24 * 3600)
            /\ usage_logs' = usage_logs
       /\ op'[p] # op[p] =>
            /\ \A m \in DOMAIN models : getModelUsage(m)' = getModelUsage(m)
            /\ \A w \in MinTokenInputs :
                 getAllAvailableModels(w)' = getAllAvailableModels(w)]_vars

\* The maintenance deleted a usage row and an outcome row, and kept a usage
\* row that is in the day window and excludes model A.
C24_Witness ==
  \E p \in Callers :
    /\ op[p].kind = "cleaned"
    /\ op[p].cleanedUsage >= 1
    /\ op[p].cleanedTasks >= 1
    /\ usage_logs # <<>>
    /\ task_logs # <<>>
    /\ getModelUsage("A").rpdUsed >= 1

(***************************************************************************)
(* Properties of the session memory.                                       *)
(***************************************************************************)
\* a is the start of b.
RECURSIVE IsPrefixOf(_, _)
IsPrefixOf(a, b) ==
  \/ a = <<>>
  \/ /\ b # <<>>
     /\ Head(a).ch = Head(b).ch
     /\ \/ Head(a).n = Head(b).n /\ IsPrefixOf(Tail(a), Tail(b))
        \/ Head(a).n < Head(b).n /\ Tail(a) = <<>>

\* The last n elements of seq.
LastOf(seq, n) ==
  IF Len(seq) <= n THEN seq ELSE [i \in 1..n |-> seq[Len(seq) - n + i]]

\* C25: a channel's session holds at most 10 entries: the most recently
\* added ones, in the order they were added, each with the role it was added
\* with and the first 500 characters of its content.
C25_SessionKeepsLastTen ==
  \A c \in Channels :
    sessions[c].exists =>
      LET entries == sessions[c].entries
          recent == LastOf(added[c].log, MAX_ENTRIES)
      IN /\ Len(entries) <= 10
         /\ Len(entries) = Len(recent)
         /\ \A i \in 1..Len(entries) :
              /\ entries[i].role = recent[i].role
              /\ IsPrefixOf(entries[i].content, recent[i].content)
              /\ StrLen(entries[i].content) =
                   IF StrLen(recent[i].content) <= 500
                   THEN StrLen(recent[i].content) ELSE 500

\* Eleven entries were added to a session, the first of them a long one; the
\* session holds ten, the long ones cut to 500 characters.
C25_Witness ==
  \E c \in Channels :
    /\ sessions[c].exists
    /\ Len(added[c].log) = 11
    /\ StrLen(added[c].log[1].content) = 1000
    /\ Len(sessions[c].entries) = 10
    /\ \E i \in 1..10 : StrLen(sessions[c].entries[i].content) = 500

\* C26: format returns the empty string, and the session is gone, once more
\* than one hour has passed since the channel's last add; at any earlier time
\* it returns the formatted history.
C26_FormatExpiresAfterOneHour ==
  \A c \in Channels :
    (formatted[c] # NotCalled /\ added[c].last >= 0) =>
      IF now * 1000 - added[c].last > 3600000
      THEN formatted[c] = <<>> /\ ~sessions[c].exists
      ELSE /\ formatted[c] # <<>>
           /\ sessions[c].exists
           /\ formatted[c] = formatEntries(sessions[c].entries)

\* format was called one hour and one second after the last add: it
\* returned the empty string and the session is gone.
C26_Witness ==
  \E c \in Channels :
    /\ formatted[c] = <<>>
    /\ added[c].last >= 0
    /\ now * 1000 - added[c].last = 3601000
    /\ ~sessions[c].exists

(***************************************************************************)
(* Properties of the reply-chain context.                                  *)
(***************************************************************************)
\* A fetch resolved in this step: refMsg' is the message it returned.
Hop == walk = "fetch" /\ refMsg'.id = currentRef.messageId /\ refMsg' # refMsg

\* The message is at most 30 minutes old when it is fetched.
Fresh(msg) == now * 1000 - msg.createdTimestamp <= 1800000

\* list is old with one entry of the role put in front of it.
OneOlder(list, old, role) ==
  /\ Len(list) = Len(old) + 1
  /\ list[1].role = role
  /\ list[1].content # <<>>
  /\ \A i \in 1..Len(old) : list[i + 1] = old[i]

Returned(list) ==
  /\ walk' = "done"
  /\ context' = [returned |-> TRUE, chain |-> list, hasContext |-> list # <<>>]

\* C27: the chain is returned oldest first.  A message of the bot, or of a
\* user who mentions the bot, is put in front of the chain (when it has
\* text) and the walk goes on to the message it replies to, for at most 5
\* hops; a plain user message is put in front only at the first hop, and
\* the walk stops there; at a deeper hop the walk stops without it.
C27_ReplyChainWalk ==
  [][Hop /\ Fresh(refMsg') =>
       LET m == refMsg'
           text == extractContent(m)
           role == IF m.fromBot THEN "bot" ELSE "user"
       IN /\ m.id <= 5
          /\ IF m.fromBot \/ m.taggedBot
             THEN /\ IF text = <<>> THEN chain' = chain
                     ELSE OneOlder(chain', chain, role)
                  /\ IF m.reference.messageId # 0 /\ m.id < 5
                     THEN walk' = "fetch" /\ currentRef' = m.reference
                     ELSE Returned(chain')
             ELSE IF m.id = 1
             THEN /\ IF text = <<>> THEN chain' = chain
                     ELSE OneOlder(chain', chain, "user")
                  /\ Returned(chain')
             ELSE chain' = chain /\ Returned(chain)
          /\ \A i \in 1..Len(chain') :
               chain'[i] = visited'[Len(chain') - i + 1]]_vars

\* The walk returned a chain of three entries after five hops: the fifth
\* message was taken although it is a reply itself, and two had no text.
C27_Witness ==
  /\ context.returned
  /\ refMsg.id = 5
  /\ refMsg.reference.messageId = 6
  /\ Len(context.chain) = 3
  /\ context.chain[1] = visited[3]
  /\ context.chain[1].role # context.chain[3].role

\* C28: a referenced message older than 30 minutes is not put in the chain
\* and ends the walk, and so does a fetch that fails: what was collected so
\* far is returned, with hasContext false when that is nothing.
C28_StopsAtOldOrFailed ==
  [][/\ (Hop /\ ~Fresh(refMsg')) => (chain' = chain /\ Returned(chain))
     /\ (walk = "fetch" /\ walk' = "done" /\ refMsg' = refMsg) =>
          (chain' = chain /\ Returned(chain))]_vars

\* The second message up the chain was 30 minutes and one second old: the
\* walk returned the first message alone.
C28_Witness ==
  /\ context.returned
  /\ refMsg.id = 2
  /\ now * 1000 - refMsg.createdTimestamp = 1801000
  /\ Len(context.chain) = 1
  /\ context.hasContext

\* C29: the content of the first-hop referenced message is kept in full up
\* to 2000 characters and cut to exactly 2000 characters beyond that.
C29_FirstHopKeeps2000 ==
  (/\ context.returned
   /\ refMsg.id = 1
   /\ ~refMsg.fromBot /\ ~refMsg.taggedBot
   /\ Fresh(refMsg)
   /\ refMsg.content # <<>>
   /\ \A i \in 1..Len(refMsg.content) : refMsg.content[i].ch \notin {" ", "<@bot>"})
  => /\ Len(context.chain) = 1
     /\ StrLen(context.chain[1].content) =
          IF StrLen(refMsg.content) <= 2000 THEN StrLen(refMsg.content) ELSE 2000

(***************************************************************************)
(* Properties of the fallback loop.                                        *)
(***************************************************************************)
\* C30: when the attempt on a fallback candidate has failed, the candidate
\* joins the exclude set and the retry goes on with the next candidate of
\* the same list (the list is not computed again, no position of it is
\* taken twice), or ends when the list is used up.
C30_NextCandidateOfSameList ==
  [][\A p \in Callers :
       (pc[p] = "retry" /\ hist[p].fallback /\ pc'[p] # "retry") =>
         /\ cur[p] \in triedModels'[p]
         /\ available'[p] = available[p]
         /\ (pc'[p] = "loop" => idx'[p] > idx[p])
         /\ (pc'[p] = "done" => idx[p] = Len(available[p]))]_vars

(***************************************************************************)
(* Properties of overlapping tasks.                                        *)
(***************************************************************************)
\* The call of p has executed on m: the provider has answered.
ExecutedOn(p, m) ==
  \/ pc[p] = "outcome" /\ cur[p] = m
  \/ pc[p] = "done" /\ result[p].success /\ result[p].modelUsed = m

\* The capacity check of the selection of p let m through.
PassedCheck(p, m) ==
  \E i \in 1..Len(availableModels[p]) : availableModels[p][i].name = m

EventsOf(log, m) == SelectSeq(log, LAMBDA r : r.model = m)

\* C22: of two overlapping calls each one that executed on a model has its
\* UsageEvent in the log, whatever the other call wrote meanwhile (no event
\* is turned down or taken back, and the call ends in success), and
\* listAvailable leaves a model out exactly as long as the events in the
\* windows leave it no capacity, also when they exceed a ceiling.
C22_OverlapRecordsBoth ==
  \A m \in Names :
    /\ Len(EventsOf(usage_logs, m)) =
         Len(EventsOf(OverlapUsage, m)) +
         Cardinality({p \in Procs : ExecutedOn(p, m)})
    /\ \A p \in Procs :
         (pc[p] = "done" /\ hist[p].usage[m] > 0) =>
           (result[p].success /\ result[p].modelUsed = m)
    /\ \A minTokens \in MinTokenInputs :
         m \in Range(getAllAvailableModels(minTokens)) <=>
           (models[m].enabled /\ WithinQuotas(m, minTokens))

\* Both calls passed the capacity check for A while one request was left,
\* both executed on A: three requests are in the minute window of a model
\* that allows two, and listAvailable leaves A out.
C22_Witness ==
  /\ \A p \in Procs :
       /\ PassedCheck(p, "A")
       /\ pc[p] = "done"
       /\ result[p].success
       /\ result[p].modelUsed = "A"
  /\ Len(usage_logs) = 3
  /\ getModelUsage("A").rpmUsed = 3
  /\ models["A"].rpm_allowed = 2
  /\ "A" \notin Range(getAllAvailableModels(0))

(***************************************************************************)
(* Properties of the selection.                                            *)
(***************************************************************************)
\* The call of p took the deterministic fallback after the oracle's answer.
FellBack(p) ==
  /\ oracle[p].kind = "answer"
  /\ analysis[p].reasoning = "Fallback"

\* The positions of the rows with room for the estimate and the buffer on
\* the tokens-per-minute quota of the snapshot.
Suitable(rows, estimatedTokens) ==
  {i \in 1..Len(rows) :
     rows[i].tpmTotal - rows[i].tpmUsed >= estimatedTokens + MinTokenBuffer}

\* C31: the deterministic fallback names the candidate of lowest rank among
\* those of the candidate snapshot with remaining tokens >= estimate +
\* buffer, the first candidate of the snapshot when there is none, and
\* keeps the estimate.
C31_FallbackPicksLowestRank ==
  \A p \in Callers :
    FellBack(p) =>
      LET rows == availableModels[p]
          ok == Suitable(rows, oracle[p].estimatedTokens)
      IN /\ analysis[p].estimatedTokens = oracle[p].estimatedTokens
         /\ \E i \in 1..Len(rows) :
              /\ rows[i].name = analysis[p].selectedModel
              /\ IF ok # {}
                 THEN i \in ok /\ \A j \in ok : rows[i].rank <= rows[j].rank
                 ELSE i = 1

\* The first candidate has no room for the estimate and a later one has:
\* the fallback named the later one.
C31_Witness ==
  \E p \in Callers :
    /\ FellBack(p)
    /\ Len(availableModels[p]) >= 2
    /\ 1 \notin Suitable(availableModels[p], oracle[p].estimatedTokens)
    /\ analysis[p].selectedModel = availableModels[p][2].name
    /\ pc[p] = "exec"

\* The steps of p in which the oracle is consulted.
Consults(p) == hist'[p].consulted # hist[p].consulted

\* The storage calls one selection can make: getModelStats, the failure
\* rate of every model, the failure rate of every candidate, and one call
\* of getAllAvailableModels (verifyModelCapacity or the emergency fallback).
SelectionReads == 2 * Cardinality(Names) + 2

\* C32: within one call the oracle is consulted at most once, on the
\* candidate rows of the selection and never from a fallback or a retry,
\* and the selection makes a bounded number of storage reads.
C32_OracleConsultedOnce ==
  /\ [][\A p \in Callers :
          Consults(p) =>
            /\ pc[p] = "select"
            /\ availableModels[p] # <<>>
            /\ hist[p].consulted = 0
            /\ hist'[p].consulted = 1
            /\ ~hist[p].fallback]_vars
  /\ [](\A p \in Callers :
          /\ hist[p].reads <= SelectionReads
          /\ hist[p].consulted <= 1
          /\ pc[p] \in {"retry", "loop"} => hist[p].reads >= 1 + Cardinality(Names))

\* The oracle was consulted once and its answer discarded, the model of the
\* deterministic fallback failed and so did a fallback of the retry: the
\* count is still one.
C32_Witness ==
  \E p \in Callers :
    /\ oracle[p].kind = "answer"
    /\ hist[p].chosen # oracle[p].selectedModel
    /\ hist[p].consulted = 1
    /\ hist[p].fallback
    /\ pc[p] = "retry"
    /\ hist[p].reads = 1 + Cardinality(Names) + Len(availableModels[p]) + 1

\* The enabled models with room for the default floor on all four quotas,
\* whatever their provider and their failure rate.
Unfiltered ==
  {m \in DOMAIN models : models[m].enabled /\ WithinQuotas(m, DefaultMinTokens)}

\* The step of p in which the selection fails: no candidate, or the
\* consultation throws.
SelectionFails(p) ==
  \/ pc[p] = "select" /\ availableModels[p] = <<>> /\ pc'[p] # "select"
  \/ pc[p] = "consult" /\ oracle'[p].kind = "throws"

\* C33: a selection that fails takes the emergency fallback: the model of
\* lowest rank of the unfiltered listAvailable(400), with an estimate of 400
\* tokens, and it raises its error only when that list is empty.
C33_EmergencyPicksFirstOfUnfiltered ==
  [][\A p \in Callers :
       SelectionFails(p) =>
         IF Unfiltered # {}
         THEN /\ pc'[p] = "exec"
              /\ cur'[p] = analysis'[p].selectedModel
              /\ cur'[p] \in Unfiltered
              /\ \A m \in Unfiltered : models[cur'[p]].rank <= models[m].rank
              /\ analysis'[p].estimatedTokens = 400
         ELSE /\ pc'[p] = "done"
              /\ result'[p] = SelectionFailed]_vars

\* The consultation threw while A had no request left and only the google
\* key was set: the emergency fallback named B, which has no provider.
C33_Witness ==
  \E p \in Callers :
    /\ oracle[p].kind = "throws"
    /\ pc[p] = "exec"
    /\ cur[p] = "B"
    /\ analysis[p].reasoning = "Emergency fallback"
    /\ analysis[p].estimatedTokens = 400
    /\ models["A"].enabled
    /\ ~HasAdapter(models["B"].origin)

\* The step of p in which the oracle's answer is discarded and the
\* deterministic fallback decides.
Discards(p) ==
  /\ pc[p] = "consult"
  /\ pc'[p] = "exec"
  /\ oracle'[p].kind = "answer"
  /\ analysis'[p].reasoning = "Fallback"

\* C34: when the oracle's answer is discarded and a candidate passes
\* listAvailable(estimatedTokens + tokenBuffer), the model the fallback
\* returns passes it too.
C34_FallbackHasCapacity ==
  [][\A p \in Callers :
       Discards(p) =>
         LET passing == Range(getAllAvailableModels(
                            oracle'[p].estimatedTokens + MinTokenBuffer))
         in == {availableModels[p][i].name : i \in 1..Len(availableModels[p])}
         IN (passing \cap in # {}) => analysis'[p].selectedModel \in passing]_vars

(***************************************************************************)
(* Properties of tasks one after the other.                                *)
(***************************************************************************)
\* The requests of m recorded from second lo to second hi.
RequestsIn(m, lo, hi) ==
  RequestsOver({i \in 1..Len(usage_logs) :
                  /\ usage_logs[i].model = m
                  /\ lo <= usage_logs[i].timestamp
                  /\ usage_logs[i].timestamp <= hi})

\* The ends of the trailing windows that hold the most: now and the second
\* of every event.
WindowEnds == {now} \cup {usage_logs[i].timestamp : i \in 1..Len(usage_logs)}

\* C35: with calls that do not overlap and an unchanged catalog the
\* requests of a model in a trailing minute never exceed its
\* requests-per-minute ceiling, nor those in a trailing day its
\* requests-per-day ceiling.
C35_SerialStaysWithinCeilings ==
  \A m \in Names : \A t \in WindowEnds :
    /\ RequestsIn(m, t - MinuteWindow, t) <= models[m].rpm_allowed
    /\ RequestsIn(m, t - DayWindow, t) <= models[m].rpd_total

\* The first call took the last request of A; the second call, made more
\* than a minute later when only the day quota of A was used up, was
\* served by C.
C35_Witness ==
  /\ \A p \in Procs : pc[p] = "done" /\ result[p].success
  /\ {result[p].modelUsed : p \in Procs} = {"A", "C"}
  /\ getModelUsage("A").rpmUsed = 0
  /\ getModelUsage("A").rpdUsed = models["A"].rpd_total

(***************************************************************************)
(* Properties of the exclusion for failure rate.                           *)
(***************************************************************************)
\* Every failed outcome of the model is older than the failure-rate window.
FailuresExpired(m) ==
  \A i \in 1..Len(task_logs) :
    (task_logs[i].model = m /\ ~task_logs[i].success) =>
      now - task_logs[i].timestamp > FailureRateWindow

\* The model has a request left in the minute and in the day.
HasRequestsLeft(m) ==
  /\ models[m].rpm_allowed - RequestsOver(EventsInWindow(m, MinuteWindow)) >= 1
  /\ models[m].rpd_total - RequestsOver(EventsInWindow(m, DayWindow)) >= 1

CandidateSet ==
  {getAvailableModelsWithStats(getModelStats)[i].name :
     i \in 1..Len(getAvailableModelsWithStats(getModelStats))}

\* C36: once every failed outcome of a model is older than the failure-rate
\* window its failure rate is 0 and the model is a candidate again, provided
\* it is enabled, has a provider and has requests left.
C36_ExclusionExpires ==
  \A m \in DOMAIN models :
    FailuresExpired(m) =>
      /\ getModelFailureRate(m, FailureRateWindow).num = 0
      /\ (models[m].enabled /\ HasAdapter(models[m].origin) /\ HasRequestsLeft(m))
           => m \in CandidateSet

\* All the outcomes of B are failures and the last of them left the window
\* a second ago: B is a candidate again.
C36_Witness ==
  /\ \E i \in 1..Len(task_logs) :
       /\ task_logs[i].model = "B"
       /\ now - task_logs[i].timestamp = FailureRateWindow + 1
  /\ \A i \in 1..Len(task_logs) :
       task_logs[i].model = "B" =>
         /\ ~task_logs[i].success
         /\ now - task_logs[i].timestamp > FailureRateWindow
  /\ getModelFailureRate("B", FailureRateWindow).num = 0
  /\ "B" \in CandidateSet

(***************************************************************************)
(* Properties of the session expiry.                                       *)
(***************************************************************************)
\* The step is an add to the channel's session.
Adds(c) ==
  /\ Len(added'[c].log) = Len(added[c].log) + 1
  /\ added'[c].last = DateNow

\* The channel has had entries added and none for more than an hour.
GapBefore(c) ==
  /\ added[c].log # <<>>
  /\ DateNow - added[c].last > TTL_MS

\* C37: no entry added before a gap of more than one hour is returned by
\* format after the gap, also when an add is the first operation after the
\* gap: what format returns right after that add is the new entry alone.
C37_NothingFromBeforeGap ==
  [][\A c \in Channels :
       (GapBefore(c) /\ Adds(c)) =>
         /\ ~Expired(sessions'[c])
         /\ formatEntries(sessions'[c].entries) =
              formatEntries(<<sessions'[c].entries[Len(sessions'[c].entries)]>>)]_vars

(***************************************************************************)
(* Properties of the reminder scheduler.                                   *)
(***************************************************************************)
\* C38: a reminder is sent with success at most once, it is marked
\* delivered only after a send of it succeeded, and a reminder none of
\* whose sends succeeded stays pending.
C38_ReminderSentOnce ==
  \A r \in Reminders :
    /\ sent[r] <= 1
    /\ r \in DOMAIN reminders =>
         /\ reminders[r].delivered = 1 => sent[r] >= 1
         /\ sent[r] = 0 => reminders[r].delivered = 0

====
